---- MODULE Spec2Model ----
(***************************************************************************)
(* A model of the json_lib crate: the Node value model, the recursive      *)
(* descent parser, the default, bencode and TOML serializers and the       *)
(* whitespace stripper.  Characters are Unicode scalar values (naturals),  *)
(* texts are sequences of characters.  Every library function is an        *)
(* operator that computes what the Rust function computes; the actions     *)
(* apply whole library calls to inputs drawn from bounded sets.            *)
(***************************************************************************)
EXTENDS Integers, Sequences, FiniteSets, TLC

VARIABLES
    pc,     \* position of the driving program: which library call comes next
    node,   \* the Node tree handed to a serializer (NoNode when none)
    src,    \* the Source: [buf |-> text, pos |-> 1-based cursor]
    dest,   \* the Destination buffer: the bytes appended so far
    out,    \* the outcome of the last library call
    prev    \* the Destination contents of the previous call of a two-call run

vars == <<pc, node, src, dest, out, prev>>

(***************************************************************************)
(* Characters.                                                             *)
(***************************************************************************)
Ch == [ tab |-> 9, lf |-> 10, cr |-> 13, ff |-> 12, bs |-> 8, sp |-> 32,
        quote |-> 34, plus |-> 43, comma |-> 44, minus |-> 45, dot |-> 46,
        slash |-> 47, d0 |-> 48, d1 |-> 49, d2 |-> 50, d5 |-> 53, d9 |-> 57,
        colon |-> 58, E |-> 69, lbrack |-> 91, bslash |-> 92, rbrack |-> 93,
        a |-> 97, b |-> 98, c |-> 99, d |-> 100, e |-> 101, f |-> 102,
        i |-> 105, l |-> 108, n |-> 110, r |-> 114, s |-> 115, t |-> 116,
        u |-> 117, x |-> 120, lbrace |-> 123, rbrace |-> 125, eq |-> 61,
        Gcedilla |-> 290 ]

\* Option<char>::None
None == -1

is_whitespace(c) ==
    \/ c \in 9..13
    \/ c \in {32, 133, 160, 5760, 8232, 8233, 8239, 8287, 12288}
    \/ c \in 8192..8202

is_digit(c) == c \in 48..57

is_ascii_hexdigit(c) == c \in 48..57 \/ c \in 65..70 \/ c \in 97..102

\* the control characters of ASCII only
is_ascii_control(c) == c \in 0..31 \/ c = 127

is_control(c) == c \in 0..31 \/ c \in 127..159

\* char::from_u32: None for a surrogate or a value past U+10FFFF
from_u32(code) ==
    IF code \in 55296..57343 \/ code > 1114111 THEN None ELSE code

\* the value of one hexadecimal digit
HexVal(c) ==
    IF c \in 48..57 THEN c - 48
    ELSE IF c \in 65..70 THEN c - 55
    ELSE c - 87

\* the digits read in base ten
RECURSIVE from_str_radix10(_)
from_str_radix10(hex) ==
    IF hex = <<>> THEN 0
    ELSE 10 * from_str_radix10(SubSeq(hex, 1, Len(hex) - 1)) + HexVal(hex[Len(hex)])

\* u32::from_str_radix(hex, 16)
RECURSIVE from_str_radix16(_)
from_str_radix16(hex) ==
    IF hex = <<>> THEN 0
    ELSE 16 * from_str_radix16(SubSeq(hex, 1, Len(hex) - 1)) + HexVal(hex[Len(hex)])

(***************************************************************************)
(* Source and Destination.                                                 *)
(***************************************************************************)
Source(text) == [buf |-> text, pos |-> 1]

more(s) == s.pos <= Len(s.buf)

current(s) == IF more(s) THEN s.buf[s.pos] ELSE None

next(s) == IF more(s) THEN [s EXCEPT !.pos = s.pos + 1] ELSE s

\* the UTF-8 encoding of one character
utf8_char(c) ==
    IF c < 128 THEN <<c>>
    ELSE IF c < 2048 THEN <<192 + (c \div 64), 128 + (c % 64)>>
    ELSE IF c < 65536
         THEN <<224 + (c \div 4096), 128 + ((c \div 64) % 64), 128 + (c % 64)>>
    ELSE <<240 + (c \div 262144), 128 + ((c \div 4096) % 64),
           128 + ((c \div 64) % 64), 128 + (c % 64)>>

\* str::as_bytes: the UTF-8 encoding of a text
RECURSIVE as_bytes(_)
as_bytes(text) ==
    IF text = <<>> THEN <<>> ELSE utf8_char(text[1]) \o as_bytes(Tail(text))

\* the number of bytes of the encoded character that starts with byte b
utf8_width(b) ==
    IF b < 128 THEN 1 ELSE IF b < 224 THEN 2 ELSE IF b < 240 THEN 3 ELSE 4

\* the value carried by the encoded character held in bytes bs
utf8_value(bs) ==
    IF Len(bs) = 1 THEN bs[1]
    ELSE IF Len(bs) = 2 THEN (bs[1] % 32) * 64 + (bs[2] % 64)
    ELSE IF Len(bs) = 3
         THEN (bs[1] % 16) * 4096 + (bs[2] % 64) * 64 + (bs[3] % 64)
    ELSE (bs[1] % 8) * 262144 + (bs[2] % 64) * 4096
             + (bs[3] % 64) * 64 + (bs[4] % 64)

\* String::from_utf8: the text held by a byte buffer, <<None>> when the
\* bytes are not well-formed UTF-8
RECURSIVE from_utf8(_)
from_utf8(bytes) ==
    IF bytes = <<>> THEN <<>>
    ELSE LET w == utf8_width(bytes[1])
         IN  IF w > Len(bytes) THEN <<None>>
             ELSE LET c == utf8_value(SubSeq(bytes, 1, w))
                      rest == from_utf8(SubSeq(bytes, w + 1, Len(bytes)))
                  IN  IF \/ c > 1114111
                         \/ from_u32(c) = None
                         \/ utf8_char(c) # SubSeq(bytes, 1, w)
                         \/ rest = <<None>>
                      THEN <<None>>
                      ELSE <<c>> \o rest

\* `c as u8`: the low eight bits of the character's scalar value
as_u8(c) == c % 256

add_bytes(d, text) == d \o as_bytes(text)

add_byte(d, byte) == Append(d, byte)

(***************************************************************************)
(* Node and Numeric.  An Object is the sequence of its entries in the      *)
(* iteration order of its HashMap, which is arbitrary; its keys are        *)
(* pairwise distinct.  A Float is the decimal mant * 10^exp, normalised    *)
(* (mant has no trailing zero, zero is mant = 0, exp = 0).                 *)
(***************************************************************************)
NoNode == [type |-> "NoNode"]

NoneNode == [type |-> "None"]

BooleanNode(b) == [type |-> "Boolean", b |-> b]

\* Number(Numeric::<kind>(n)) for the integer variants of Numeric
\* an integer Numeric: n is the value when its magnitude is below 10^9;
\* a value of ten or more digits is held in wide as its decimal text (the
\* sign and the digits without leading zeros), with n = 0
NumericNode(kind, n) == [type |-> "Number", kind |-> kind, n |-> n, wide |-> <<>>]

WideIntegerNode(text) == [type |-> "Number", kind |-> "Integer", n |-> 0, wide |-> text]

IntegerNode(n) == NumericNode("Integer", n)

FloatNode(m, e) == [type |-> "Number", kind |-> "Float", mant |-> m, exp |-> e]

StrNode(s) == [type |-> "Str", s |-> s]

ArrayNode(items) == [type |-> "Array", items |-> items]

ObjectNode(entries) == [type |-> "Object", entries |-> entries]

Entry(k, v) == [k |-> k, v |-> v]

\* HashMap::insert: a present key keeps its slot and takes the new value
\* an insert that never overwrites
map_insert_append(entries, k, v) == Append(entries, Entry(k, v))

\* HashMap::insert: a key already in the map gets the new value
map_insert(entries, k, v) ==
    IF \E i \in 1..Len(entries) : entries[i].k = k
    THEN [i \in 1..Len(entries) |->
             IF entries[i].k = k THEN Entry(k, v) ELSE entries[i]]
    ELSE Append(entries, Entry(k, v))

\* PartialEq for Node: HashMap equality does not look at the iteration order
RECURSIVE NodeEq(_, _)
NodeEq(x, y) ==
    IF x.type # y.type THEN FALSE
    ELSE IF x.type = "Array" THEN
        /\ Len(x.items) = Len(y.items)
        /\ \A i \in 1..Len(x.items) : NodeEq(x.items[i], y.items[i])
    ELSE IF x.type = "Object" THEN
        /\ Len(x.entries) = Len(y.entries)
        /\ \A i \in 1..Len(x.entries) :
              \E j \in 1..Len(y.entries) :
                 /\ x.entries[i].k = y.entries[j].k
                 /\ NodeEq(x.entries[i].v, y.entries[j].v)
    ELSE IF x.type = "Number" THEN
        /\ x.kind = y.kind
        /\ IF x.kind = "Float" THEN x.mant = y.mant /\ x.exp = y.exp
           ELSE x.n = y.n /\ x.wide = y.wide
    ELSE IF x.type = "Str" THEN x.s = y.s
    ELSE IF x.type = "Boolean" THEN x.b = y.b
    ELSE TRUE

\* From<[(K, V); N]> for Node: the pairs inserted in turn into a new map
RECURSIVE from_pairs_loop(_, _)
from_pairs_loop(pairs, map) ==
    IF pairs = <<>> THEN ObjectNode(map)
    ELSE from_pairs_loop(Tail(pairs), map_insert(map, pairs[1].k, pairs[1].v))

from_pairs(pairs) == from_pairs_loop(pairs, <<>>)

(***************************************************************************)
(* Error messages.                                                         *)
(***************************************************************************)
ERR_UNEXPECTED_CHAR == "Unexpected character: "
ERR_EMPTY_INPUT == "Empty input"
ERR_OBJECT_KEY == "Object key must be a string"
ERR_EXPECT_COLON == "Expected ':' after object key"
ERR_EXPECT_OBJECT_END == "Expected ',' or '}' in object"
ERR_EXPECT_ARRAY_END == "Expected ',' or ']' in array"
ERR_INVALID_ESCAPE == "Invalid escape sequence"
ERR_UNTERMINATED_STRING == "Unterminated string"
ERR_MULTIPLE_DECIMAL == "Multiple decimal points in number"
ERR_INVALID_FLOAT == "Invalid float number"
ERR_INVALID_INTEGER == "Invalid integer number"
ERR_EXPECT_TRUE == "Expected 'true'"
ERR_EXPECT_FALSE == "Expected 'false'"
ERR_EXPECT_NULL == "Expected 'null'"

\* Result<Node, String> together with the Source as the call leaves it
POk(n, s) == [ok |-> TRUE, node |-> n, err |-> "", errch |-> None, src |-> s]

PErr(msg, s) == [ok |-> FALSE, node |-> NoNode, err |-> msg, errch |-> None, src |-> s]

PErrCh(msg, c, s) == [ok |-> FALSE, node |-> NoNode, err |-> msg, errch |-> c, src |-> s]

(***************************************************************************)
(* Number formatting and parsing of the Rust standard library.             *)
(***************************************************************************)
RECURSIVE NatDigits(_)
NatDigits(n) ==
    IF n < 10 THEN <<48 + n>> ELSE Append(NatDigits(n \div 10), 48 + (n % 10))

\* i64::to_string
i64_to_string(n) ==
    IF n < 0 THEN <<Ch.minus>> \o NatDigits(0 - n) ELSE NatDigits(n)

Zeros(k) == [j \in 1..k |-> Ch.d0]

\* f64::to_string (Display): the shortest decimal expansion, never an exponent,
\* and no fractional part at all for a whole number (1.0 prints as 1)
f64_to_string(mant, exp) ==
    LET sign == IF mant < 0 THEN <<Ch.minus>> ELSE <<>>
        ds == NatDigits(IF mant < 0 THEN 0 - mant ELSE mant)
        k == 0 - exp
    IN  IF exp >= 0 THEN sign \o ds \o Zeros(exp)
        ELSE IF Len(ds) > k
             THEN sign \o SubSeq(ds, 1, Len(ds) - k) \o <<Ch.dot>>
                       \o SubSeq(ds, Len(ds) - k + 1, Len(ds))
             ELSE sign \o <<Ch.d0, Ch.dot>> \o Zeros(k - Len(ds)) \o ds

AllDigits(str) == \A j \in 1..Len(str) : is_digit(str[j])

RECURSIVE DigitsValue(_)
DigitsValue(str) ==
    IF str = <<>> THEN 0
    ELSE 10 * DigitsValue(SubSeq(str, 1, Len(str) - 1)) + (str[Len(str)] - 48)

RECURSIVE StripLeadingZeros(_)
StripLeadingZeros(str) ==
    IF Len(str) > 1 /\ str[1] = Ch.d0 THEN StripLeadingZeros(Tail(str)) ELSE str

\* the decimal digits of 2^63 - 1 and of 2^63
I64MaxDigits == <<57,50,50,51,51,55,50,48,51,54,56,53,52,55,55,53,56,48,55>>
I64MinDigits == <<57,50,50,51,51,55,50,48,51,54,56,53,52,55,55,53,56,48,56>>

\* lexicographic order on digit strings of one length
RECURSIVE DigitsLeq(_, _)
DigitsLeq(x, y) ==
    IF x = <<>> THEN TRUE
    ELSE IF x[1] # y[1] THEN x[1] < y[1]
    ELSE DigitsLeq(Tail(x), Tail(y))

\* str::parse::<i64> with the range check left out
parse_i64_any_width(str) ==
    LET signed == str # <<>> /\ str[1] \in {Ch.minus, Ch.plus}
        neg == str # <<>> /\ str[1] = Ch.minus
        ds == IF signed THEN Tail(str) ELSE str
        sig == StripLeadingZeros(ds)
    IN  IF ds = <<>> \/ ~AllDigits(ds) THEN [ok |-> FALSE, n |-> 0, wide |-> <<>>]
        ELSE IF Len(sig) <= 9
        THEN [ok |-> TRUE, n |-> IF neg THEN 0 - DigitsValue(sig) ELSE DigitsValue(sig),
              wide |-> <<>>]
        ELSE [ok |-> TRUE, n |-> 0, wide |-> (IF neg THEN <<Ch.minus>> ELSE <<>>) \o sig]

\* str::parse::<i64>: an optional sign, then at least one digit and only
\* digits, the value within [-2^63, 2^63 - 1]
parse_i64(str) ==
    LET signed == str # <<>> /\ str[1] \in {Ch.minus, Ch.plus}
        neg == str # <<>> /\ str[1] = Ch.minus
        ds == IF signed THEN Tail(str) ELSE str
        sig == StripLeadingZeros(ds)
        fits == \/ Len(sig) < 19
                \/ /\ Len(sig) = 19
                   /\ DigitsLeq(sig, IF neg THEN I64MinDigits ELSE I64MaxDigits)
    IN  IF ds = <<>> \/ ~AllDigits(ds) \/ ~fits THEN [ok |-> FALSE, n |-> 0, wide |-> <<>>]
        ELSE IF Len(sig) <= 9
        THEN [ok |-> TRUE, n |-> IF neg THEN 0 - DigitsValue(sig) ELSE DigitsValue(sig),
              wide |-> <<>>]
        ELSE [ok |-> TRUE, n |-> 0, wide |-> (IF neg THEN <<Ch.minus>> ELSE <<>>) \o sig]

\* the position of the first e or E of str, 0 when there is none
FirstExp(str) ==
    IF \E j \in 1..Len(str) : str[j] \in {Ch.e, Ch.E}
    THEN CHOOSE j \in 1..Len(str) :
            /\ str[j] \in {Ch.e, Ch.E}
            /\ \A h \in 1..(j - 1) : str[h] \notin {Ch.e, Ch.E}
    ELSE 0

FirstDot(str) ==
    IF \E j \in 1..Len(str) : str[j] = Ch.dot
    THEN CHOOSE j \in 1..Len(str) :
            str[j] = Ch.dot /\ \A h \in 1..(j - 1) : str[h] # Ch.dot
    ELSE 0

\* mant * 10^exp with the trailing zeros of mant moved into exp
RECURSIVE Normalise(_, _)
Normalise(mant, exp) ==
    IF mant = 0 THEN [mant |-> 0, exp |-> 0]
    ELSE IF mant % 10 = 0 THEN Normalise(mant \div 10, exp + 1)
    ELSE [mant |-> mant, exp |-> exp]

\* str::parse::<f64> on the characters parse_number collects (sign, digits,
\* '.', 'e', 'E'):  [sign] (digits | digits '.' [digits] | '.' digits) [exp]
\* with exp = ('e' | 'E') [sign] digits
parse_f64(str) ==
    LET signed == str # <<>> /\ str[1] \in {Ch.minus, Ch.plus}
        neg == str # <<>> /\ str[1] = Ch.minus
        body == IF signed THEN Tail(str) ELSE str
        ep == FirstExp(body)
        mpart == IF ep = 0 THEN body ELSE SubSeq(body, 1, ep - 1)
        xpart == IF ep = 0 THEN <<>> ELSE SubSeq(body, ep + 1, Len(body))
        dp == FirstDot(mpart)
        ipart == IF dp = 0 THEN mpart ELSE SubSeq(mpart, 1, dp - 1)
        fpart == IF dp = 0 THEN <<>> ELSE SubSeq(mpart, dp + 1, Len(mpart))
        xsigned == xpart # <<>> /\ xpart[1] \in {Ch.minus, Ch.plus}
        xneg == xpart # <<>> /\ xpart[1] = Ch.minus
        xds == IF xsigned THEN Tail(xpart) ELSE xpart
        mant_ok == AllDigits(ipart) /\ AllDigits(fpart) /\ Len(ipart) + Len(fpart) > 0
        exp_ok == ep = 0 \/ (xds # <<>> /\ AllDigits(xds))
        m == DigitsValue(ipart \o fpart)
        x == (IF xneg THEN 0 - DigitsValue(xds) ELSE DigitsValue(xds)) - Len(fpart)
        v == Normalise(IF neg THEN 0 - m ELSE m, x)
    IN  IF mant_ok /\ exp_ok THEN [ok |-> TRUE, mant |-> v.mant, exp |-> v.exp]
        ELSE [ok |-> FALSE, mant |-> 0, exp |-> 0]

(***************************************************************************)
(* The parser (json_lib/parser/default.rs).                                *)
(***************************************************************************)
\* a skip that consumes nothing
skip_whitespace_none(s) == s

RECURSIVE skip_whitespace(_)
skip_whitespace(s) ==
    LET c == current(s)
    IN  IF c # None /\ is_whitespace(c) THEN skip_whitespace(next(s)) ELSE s

\* the for loop of parse_string's \u arm: four hexadecimal digits
RECURSIVE read_hex4(_, _)
read_hex4(s, hex) ==
    IF Len(hex) = 4 THEN [ok |-> TRUE, hex |-> hex, src |-> s]
    ELSE LET d == current(s)
         IN  IF d # None /\ is_ascii_hexdigit(d)
             THEN read_hex4(next(s), Append(hex, d))
             ELSE [ok |-> FALSE, hex |-> hex, src |-> s]

\* escapes that let every character stand for itself
simple_escape_any(e) == e

\* the single-character escapes of parse_string: the character pushed, None
\* for a character that is no escape
simple_escape(e) ==
    IF e = Ch.quote THEN Ch.quote
    ELSE IF e = Ch.bslash THEN Ch.bslash
    ELSE IF e = Ch.slash THEN Ch.slash
    ELSE IF e = Ch.b THEN 8
    ELSE IF e = Ch.f THEN 12
    ELSE IF e = Ch.n THEN 10
    ELSE IF e = Ch.r THEN 13
    ELSE IF e = Ch.t THEN 9
    ELSE None

\* the while loop of parse_string
RECURSIVE parse_string_loop(_, _)
parse_string_loop(s, str) ==
    LET c == current(s)
    IN  IF c = None THEN PErr(ERR_UNTERMINATED_STRING, s)
        ELSE IF c = Ch.quote THEN POk(StrNode(str), next(s))
        ELSE IF c = Ch.bslash THEN
            LET s1 == next(s)
                e == current(s1)
            IN  IF e = Ch.u THEN
                    LET h == read_hex4(next(s1), <<>>)
                        ch == from_u32(from_str_radix16(h.hex))
                    IN  IF ~h.ok THEN PErr(ERR_INVALID_ESCAPE, h.src)
                        ELSE IF ch = None THEN PErr(ERR_INVALID_ESCAPE, h.src)
                        ELSE parse_string_loop(h.src, Append(str, ch))
                ELSE IF e # None /\ simple_escape(e) # None
                     THEN parse_string_loop(next(s1), Append(str, simple_escape(e)))
                ELSE PErr(ERR_INVALID_ESCAPE, s1)
        ELSE parse_string_loop(next(s), Append(str, c))

\* skips one character as the opening quote, whatever it is
parse_string(s) == parse_string_loop(next(s), <<>>)

\* the while loop of parse_number
RECURSIVE parse_number_loop(_, _, _)
parse_number_loop(s, num_str, is_float) ==
    LET c == current(s)
    IN  IF c # None /\ is_digit(c)
        THEN parse_number_loop(next(s), Append(num_str, c), is_float)
        ELSE IF c = Ch.dot THEN
            IF is_float
            THEN [err |-> ERR_MULTIPLE_DECIMAL, num_str |-> num_str,
                  is_float |-> is_float, src |-> s]
            ELSE parse_number_loop(next(s), Append(num_str, c), TRUE)
        ELSE IF c \in {Ch.e, Ch.E} THEN
            LET s1 == next(s)
                sign == current(s1)
            IN  IF sign \in {Ch.plus, Ch.minus}
                THEN parse_number_loop(next(s1), num_str \o <<c, sign>>, TRUE)
                ELSE parse_number_loop(s1, Append(num_str, c), TRUE)
        ELSE [err |-> "", num_str |-> num_str, is_float |-> is_float, src |-> s]

\* a parse_number that also consumes the character that ends the literal
parse_number_eats_terminator(s) ==
    LET neg == current(s) = Ch.minus
        l == parse_number_loop(IF neg THEN next(s) ELSE s,
                               IF neg THEN <<Ch.minus>> ELSE <<>>, FALSE)
        f == parse_f64(l.num_str)
        n == parse_i64(l.num_str)
    IN  IF l.err # "" THEN PErr(l.err, l.src)
        ELSE IF l.is_float THEN
            IF f.ok THEN POk(FloatNode(f.mant, f.exp), next(l.src))
            ELSE PErr(ERR_INVALID_FLOAT, l.src)
        ELSE IF n.ok THEN POk(IF n.wide = <<>> THEN IntegerNode(n.n) ELSE WideIntegerNode(n.wide),
                               next(l.src))
             ELSE PErr(ERR_INVALID_INTEGER, l.src)

\* a parse_number that gives a literal without sign, point and exponent the
\* unsigned variant
parse_number_unsigned(s) ==
    LET neg == current(s) = Ch.minus
        l == parse_number_loop(IF neg THEN next(s) ELSE s,
                               IF neg THEN <<Ch.minus>> ELSE <<>>, FALSE)
        f == parse_f64(l.num_str)
        n == parse_i64(l.num_str)
    IN  IF l.err # "" THEN PErr(l.err, l.src)
        ELSE IF l.is_float THEN
            IF f.ok THEN POk(FloatNode(f.mant, f.exp), l.src)
            ELSE PErr(ERR_INVALID_FLOAT, l.src)
        ELSE IF n.ok THEN POk(NumericNode(IF neg THEN "Integer" ELSE "UInteger", n.n), l.src)
             ELSE PErr(ERR_INVALID_INTEGER, l.src)

parse_number(s) ==
    LET neg == current(s) = Ch.minus
        l == parse_number_loop(IF neg THEN next(s) ELSE s,
                               IF neg THEN <<Ch.minus>> ELSE <<>>, FALSE)
        f == parse_f64(l.num_str)
        n == parse_i64(l.num_str)
    IN  IF l.err # "" THEN PErr(l.err, l.src)
        ELSE IF l.is_float THEN
            IF f.ok THEN POk(FloatNode(f.mant, f.exp), l.src)
            ELSE PErr(ERR_INVALID_FLOAT, l.src)
        ELSE IF n.ok THEN POk(IF n.wide = <<>> THEN IntegerNode(n.n) ELSE WideIntegerNode(n.wide),
                               l.src)
             ELSE PErr(ERR_INVALID_INTEGER, l.src)

\* the for loop of parse_true, parse_false and parse_null over the rest of
\* the literal
RECURSIVE match_literal(_, _, _, _)
match_literal(s, rest, err, n) ==
    IF rest = <<>> THEN POk(n, s)
    ELSE IF current(s) # rest[1] THEN PErr(err, s)
    ELSE match_literal(next(s), Tail(rest), err, n)

parse_true(s) ==
    match_literal(next(s), <<Ch.r, Ch.u, Ch.e>>, ERR_EXPECT_TRUE, BooleanNode(TRUE))

parse_false(s) ==
    match_literal(next(s), <<Ch.a, Ch.l, Ch.s, Ch.e>>, ERR_EXPECT_FALSE, BooleanNode(FALSE))

parse_null(s) ==
    match_literal(next(s), <<Ch.u, Ch.l, Ch.l>>, ERR_EXPECT_NULL, NoneNode)

RECURSIVE parse(_), parse_object_loop(_, _), parse_array_loop(_, _)

\* the loop of parse_object, map holding the entries inserted so far
parse_object_loop(s, map) ==
    LET k == parse_string(skip_whitespace(s))
        s1 == skip_whitespace(k.src)
        v == parse(skip_whitespace(next(s1)))
        s2 == skip_whitespace(v.src)
        map1 == map_insert(map, k.node.s, v.node)
    IN  IF ~k.ok THEN k
        ELSE IF current(s1) # Ch.colon THEN PErr(ERR_EXPECT_COLON, s1)
        ELSE IF ~v.ok THEN v
        ELSE IF current(s2) = Ch.comma THEN parse_object_loop(next(s2), map1)
        ELSE IF current(s2) = Ch.rbrace THEN POk(ObjectNode(map1), next(s2))
        ELSE PErr(ERR_EXPECT_OBJECT_END, s2)

parse_object(s) ==
    LET s1 == skip_whitespace(next(s))
    IN  IF current(s1) = Ch.rbrace THEN POk(ObjectNode(<<>>), next(s1))
        ELSE parse_object_loop(s1, <<>>)

\* the loop of parse_array, vec holding the elements pushed so far
parse_array_loop(s, vec) ==
    LET v == parse(s)
        s1 == skip_whitespace(v.src)
        vec1 == Append(vec, v.node)
    IN  IF ~v.ok THEN v
        ELSE IF current(s1) = Ch.comma THEN parse_array_loop(next(s1), vec1)
        ELSE IF current(s1) = Ch.rbrack THEN POk(ArrayNode(vec1), next(s1))
        ELSE PErr(ERR_EXPECT_ARRAY_END, s1)

parse_array(s) ==
    LET s1 == skip_whitespace(next(s))
    IN  IF current(s1) = Ch.rbrack THEN POk(ArrayNode(<<>>), next(s1))
        ELSE parse_array_loop(s1, <<>>)

parse(s0) ==
    LET s == skip_whitespace(s0)
        c == current(s)
    IN  IF c = Ch.lbrace THEN parse_object(s)
        ELSE IF c = Ch.lbrack THEN parse_array(s)
        ELSE IF c = Ch.quote THEN parse_string(s)
        ELSE IF c = Ch.t THEN parse_true(s)
        ELSE IF c = Ch.f THEN parse_false(s)
        ELSE IF c = Ch.n THEN parse_null(s)
        ELSE IF c # None /\ (is_digit(c) \/ c = Ch.minus) THEN parse_number(s)
        ELSE IF c # None THEN PErrCh(ERR_UNEXPECTED_CHAR, c, s)
        ELSE PErr(ERR_EMPTY_INPUT, s)


(***************************************************************************)
(* Texts the serializers write.                                            *)
(***************************************************************************)
T_null == <<Ch.n, Ch.u, Ch.l, Ch.l>>
T_true == <<Ch.t, Ch.r, Ch.u, Ch.e>>
T_false == <<Ch.f, Ch.a, Ch.l, Ch.s, Ch.e>>

\* bool::to_string
bool_to_string(b) == IF b THEN T_true ELSE T_false

\* format!("{:?}", value) of a Numeric: the variant's name and its payload
debug_numeric(kind, n) ==
    LET name == IF kind = "Int8" THEN <<73, 110, 116, 56>>
                ELSE IF kind = "Int16" THEN <<73, 110, 116, 49, 54>>
                ELSE <<85, 73, 110, 116, 49, 54>>
    IN  name \o <<40>> \o i64_to_string(n) \o <<41>>

\* the text of a Numeric shared by the match arms of the default, bencode and
\* TOML serializers: to_string for the listed variants, {:?} for the rest
numeric_text(v) ==
    IF v.kind = "Float" THEN f64_to_string(v.mant, v.exp)
    ELSE IF v.kind \in {"Integer", "UInteger", "Byte", "Int32", "UInt32"}
         THEN (IF v.wide # <<>> THEN v.wide ELSE i64_to_string(v.n))
    ELSE debug_numeric(v.kind, v.n)

(***************************************************************************)
(* The default serializer (json_lib/stringify/default.rs).                 *)
(***************************************************************************)
\* format!("\\u{:04x}", c as u32)
HexDigit(v) == IF v < 10 THEN 48 + v ELSE 87 + v

RECURSIVE HexDigits(_)
HexDigits(v) ==
    IF v < 16 THEN <<HexDigit(v)>> ELSE Append(HexDigits(v \div 16), HexDigit(v % 16))

unicode_escape(c) ==
    LET h == HexDigits(c)
    IN  <<Ch.bslash, Ch.u>> \o Zeros(IF Len(h) < 4 THEN 4 - Len(h) ELSE 0) \o h

\* one arm of the match over the characters of a Str
escape_char(c) ==
    IF c = Ch.quote THEN <<Ch.bslash, Ch.quote>>
    ELSE IF c = Ch.bslash THEN <<Ch.bslash, Ch.bslash>>
    ELSE IF c = Ch.lf THEN <<Ch.bslash, Ch.n>>
    ELSE IF c = Ch.cr THEN <<Ch.bslash, Ch.r>>
    ELSE IF c = Ch.tab THEN <<Ch.bslash, Ch.t>>
    ELSE IF is_control(c) THEN unicode_escape(c)
    ELSE <<c>>

RECURSIVE escape_chars(_, _)
escape_chars(value, d) ==
    IF value = <<>> THEN d
    ELSE escape_chars(Tail(value), add_bytes(d, escape_char(value[1])))

stringify_str_default(value, d) ==
    add_bytes(escape_chars(value, add_bytes(d, <<Ch.quote>>)), <<Ch.quote>>)

RECURSIVE stringify(_, _), stringify_items(_, _, _), stringify_entries(_, _, _)

\* the for loop of the Array arm, from element index on
stringify_items(items, index, d) ==
    IF index > Len(items) THEN d
    ELSE stringify_items(items, index + 1,
             stringify(items[index],
                       IF index > 1 THEN add_bytes(d, <<Ch.comma>>) ELSE d))

\* the for loop of the Object arm, from entry index on
stringify_entries(entries, index, d) ==
    IF index > Len(entries) THEN d
    ELSE LET d1 == IF index > 1 THEN add_bytes(d, <<Ch.comma>>) ELSE d
             d2 == stringify(StrNode(entries[index].k), d1)
             d3 == add_bytes(d2, <<Ch.colon>>)
         IN  stringify_entries(entries, index + 1, stringify(entries[index].v, d3))

stringify(n, d) ==
    IF n.type = "None" THEN add_bytes(d, T_null)
    ELSE IF n.type = "Boolean" THEN add_bytes(d, IF n.b THEN T_true ELSE T_false)
    ELSE IF n.type = "Number" THEN add_bytes(d, numeric_text(n))
    ELSE IF n.type = "Str" THEN stringify_str_default(n.s, d)
    ELSE IF n.type = "Array"
         THEN add_bytes(stringify_items(n.items, 1, add_bytes(d, <<Ch.lbrack>>)),
                        <<Ch.rbrack>>)
    ELSE add_bytes(stringify_entries(n.entries, 1, add_bytes(d, <<Ch.lbrace>>)),
                   <<Ch.rbrace>>)

(***************************************************************************)
(* Ordering of keys: String::cmp is the lexicographic order of the UTF-8   *)
(* bytes, which is the lexicographic order of the scalar values.           *)
(***************************************************************************)
RECURSIVE key_less(_, _)
key_less(x, y) ==
    IF y = <<>> THEN FALSE
    ELSE IF x = <<>> THEN TRUE
    ELSE IF x[1] # y[1] THEN x[1] < y[1]
    ELSE key_less(Tail(x), Tail(y))

\* one entry put into a sequence sorted by key, after the entries not greater
RECURSIVE insert_sorted(_, _)
insert_sorted(sorted, e) ==
    IF sorted = <<>> THEN <<e>>
    ELSE IF key_less(e.k, sorted[1].k) THEN <<e>> \o sorted
    ELSE <<sorted[1]>> \o insert_sorted(Tail(sorted), e)

RECURSIVE sort_entries(_, _)
sort_entries(entries, sorted) ==
    IF entries = <<>> THEN sorted
    ELSE sort_entries(Tail(entries), insert_sorted(sorted, entries[1]))

(***************************************************************************)
(* The bencode serializer (stringify/bencode.rs).                          *)
(***************************************************************************)
\* entries.iter().collect() with the sort left out
unsorted_entries(entries) == entries

\* entries.iter().collect() followed by sort_by on the keys
sorted_entries(entries) == sort_entries(entries, <<>>)

\* f.round() as i64 of the decimal mant * 10^exp: half away from zero
RECURSIVE Pow10(_)
Pow10(k) == IF k = 0 THEN 1 ELSE 10 * Pow10(k - 1)

f64_round(mant, exp) ==
    LET a == IF mant < 0 THEN 0 - mant ELSE mant
        q == IF exp >= 0 THEN a * Pow10(exp)
             ELSE (2 * a + Pow10(0 - exp)) \div (2 * Pow10(0 - exp))
    IN  IF mant < 0 THEN 0 - q ELSE q

\* value.len(): the number of bytes of the UTF-8 encoding
utf8_len(c) == IF c < 128 THEN 1 ELSE IF c < 2048 THEN 2 ELSE IF c < 65536 THEN 3 ELSE 4

\* the number of characters
char_count(value) == Len(value)

RECURSIVE str_len(_)
str_len(value) == IF value = <<>> THEN 0 ELSE utf8_len(value[1]) + str_len(Tail(value))

RECURSIVE to_bencode(_, _), bencode_items(_, _, _), bencode_entries(_, _, _)

bencode_items(items, index, d) ==
    IF index > Len(items) THEN d
    ELSE bencode_items(items, index + 1, to_bencode(items[index], d))

bencode_entries(entries, index, d) ==
    IF index > Len(entries) THEN d
    ELSE bencode_entries(entries, index + 1,
             to_bencode(entries[index].v,
                        to_bencode(StrNode(entries[index].k), d)))

to_bencode(n, d) ==
    IF n.type = "None" THEN add_bytes(d, <<>>)
    ELSE IF n.type = "Boolean"
         THEN add_bytes(d, IF n.b THEN <<Ch.i, Ch.d1, Ch.e>> ELSE <<Ch.i, Ch.d0, Ch.e>>)
    ELSE IF n.type = "Number" THEN
        IF n.kind = "Float"
        THEN add_bytes(d, <<Ch.i>> \o i64_to_string(f64_round(n.mant, n.exp)) \o <<Ch.e>>)
        ELSE add_bytes(d, <<Ch.i>> \o numeric_text(n) \o <<Ch.e>>)
    ELSE IF n.type = "Str"
         THEN add_bytes(add_bytes(d, NatDigits(str_len(n.s)) \o <<Ch.colon>>), n.s)
    ELSE IF n.type = "Array"
         THEN add_bytes(bencode_items(n.items, 1, add_bytes(d, <<Ch.l>>)), <<Ch.e>>)
    ELSE add_bytes(bencode_entries(sorted_entries(n.entries), 1, add_bytes(d, <<Ch.d>>)),
                   <<Ch.e>>)


(***************************************************************************)
(* The XML serializer (stringify/xml.rs).  Xml holds the tags and entity   *)
(* references it writes, a closing tag under the name with _end.           *)
(***************************************************************************)
Xml ==
    [ null |-> <<60, 110, 117, 108, 108, 47, 62>>,
      boolean |-> <<60, 98, 111, 111, 108, 101, 97, 110, 62>>,
      boolean_end |-> <<60, 47, 98, 111, 111, 108, 101, 97, 110, 62>>,
      number |-> <<60, 110, 117, 109, 98, 101, 114, 62>>,
      number_end |-> <<60, 47, 110, 117, 109, 98, 101, 114, 62>>,
      string |-> <<60, 115, 116, 114, 105, 110, 103, 62>>,
      string_end |-> <<60, 47, 115, 116, 114, 105, 110, 103, 62>>,
      array |-> <<60, 97, 114, 114, 97, 121, 62>>,
      array_end |-> <<60, 47, 97, 114, 114, 97, 121, 62>>,
      item |-> <<60, 105, 116, 101, 109, 62>>,
      item_end |-> <<60, 47, 105, 116, 101, 109, 62>>,
      object |-> <<60, 111, 98, 106, 101, 99, 116, 62>>,
      object_end |-> <<60, 47, 111, 98, 106, 101, 99, 116, 62>>,
      entry |-> <<60, 101, 110, 116, 114, 121, 62>>,
      entry_end |-> <<60, 47, 101, 110, 116, 114, 121, 62>>,
      key |-> <<60, 107, 101, 121, 62>>,
      key_end |-> <<60, 47, 107, 101, 121, 62>>,
      value |-> <<60, 118, 97, 108, 117, 101, 62>>,
      value_end |-> <<60, 47, 118, 97, 108, 117, 101, 62>>,
      lt |-> <<38, 108, 116, 59>>,
      gt |-> <<38, 103, 116, 59>>,
      amp |-> <<38, 97, 109, 112, 59>>,
      quot |-> <<38, 113, 117, 111, 116, 59>>,
      apos |-> <<38, 97, 112, 111, 115, 59>> ]

\* an escape that leaves the apostrophe as it is
escape_xml_char_no_apos(c) ==
    IF c = 60 THEN Xml.lt
    ELSE IF c = 62 THEN Xml.gt
    ELSE IF c = 38 THEN Xml.amp
    ELSE IF c = Ch.quote THEN Xml.quot
    ELSE <<c>>

\* one character of escape_xml_string
escape_xml_char(c) ==
    IF c = 60 THEN Xml.lt
    ELSE IF c = 62 THEN Xml.gt
    ELSE IF c = 38 THEN Xml.amp
    ELSE IF c = Ch.quote THEN Xml.quot
    ELSE IF c = 39 THEN Xml.apos
    ELSE <<c>>

RECURSIVE escape_xml_string(_, _)
escape_xml_string(s, d) ==
    IF s = <<>> THEN d
    ELSE escape_xml_string(Tail(s), add_bytes(d, escape_xml_char(s[1])))

RECURSIVE to_xml(_, _), xml_items(_, _, _), xml_entries(_, _, _)

\* the for loop of the Array arm, from element index on
xml_items(items, index, d) ==
    IF index > Len(items) THEN d
    ELSE xml_items(items, index + 1,
             add_bytes(to_xml(items[index], add_bytes(d, Xml.item)), Xml.item_end))

\* the for loop of the Object arm, from entry index on
xml_entries(entries, index, d) ==
    IF index > Len(entries) THEN d
    ELSE LET d1 == add_bytes(add_bytes(d, Xml.entry), Xml.key)
             d2 == add_bytes(escape_xml_string(entries[index].k, d1), Xml.key_end)
             d3 == to_xml(entries[index].v, add_bytes(d2, Xml.value))
         IN  xml_entries(entries, index + 1,
                 add_bytes(add_bytes(d3, Xml.value_end), Xml.entry_end))

to_xml(n, d) ==
    IF n.type = "None" THEN add_bytes(d, Xml.null)
    ELSE IF n.type = "Boolean"
         THEN add_bytes(add_bytes(add_bytes(d, Xml.boolean), bool_to_string(n.b)),
                        Xml.boolean_end)
    ELSE IF n.type = "Number"
         THEN add_bytes(add_bytes(add_bytes(d, Xml.number), numeric_text(n)), Xml.number_end)
    ELSE IF n.type = "Str"
         THEN add_bytes(escape_xml_string(n.s, add_bytes(d, Xml.string)), Xml.string_end)
    ELSE IF n.type = "Array"
         THEN add_bytes(xml_items(n.items, 1, add_bytes(d, Xml.array)), Xml.array_end)
    ELSE add_bytes(xml_entries(n.entries, 1, add_bytes(d, Xml.object)), Xml.object_end)

(***************************************************************************)
(* The YAML serializer (stringify/yaml.rs).                                *)
(***************************************************************************)
\* " ".repeat(k)
RECURSIVE repeat_space(_)
repeat_space(k) == IF k = 0 THEN <<>> ELSE <<Ch.sp>> \o repeat_space(k - 1)

contains(s, c) == \E j \in 1..Len(s) : s[j] = c

\* str::lines: the pieces between line feeds, a carriage return just before
\* a line feed dropped, no last piece after a final line feed
RECURSIVE lines(_, _)
lines(s, line) ==
    LET trimmed == IF line # <<>> /\ line[Len(line)] = Ch.cr
                   THEN SubSeq(line, 1, Len(line) - 1) ELSE line
    IN  IF s = <<>> THEN (IF line = <<>> THEN <<>> ELSE <<line>>)
        ELSE IF s[1] = Ch.lf THEN <<trimmed>> \o lines(Tail(s), <<>>)
        ELSE lines(Tail(s), Append(line, s[1]))

\* the for loop of the Str arm, from line index on
RECURSIVE yaml_lines(_, _, _, _)
yaml_lines(ls, index, indent, d) ==
    IF index > Len(ls) THEN d
    ELSE yaml_lines(ls, index + 1, indent,
             add_bytes(add_bytes(add_bytes(d, repeat_space(indent + 2)), ls[index]),
                       <<Ch.lf>>))

RECURSIVE stringify_with_indent(_, _, _), yaml_items(_, _, _, _), yaml_entries(_, _, _, _)

\* the for loop of the Array arm, from element index on
yaml_items(items, index, indent, d) ==
    IF index > Len(items) THEN d
    ELSE LET d1 == add_bytes(add_bytes(d, repeat_space(indent)), <<Ch.minus, Ch.sp>>)
         IN  yaml_items(items, index + 1, indent,
                 add_bytes(stringify_with_indent(items[index], d1, indent + 2), <<Ch.lf>>))

\* the for loop of the Object arm, from entry index on
yaml_entries(entries, index, indent, d) ==
    IF index > Len(entries) THEN d
    ELSE LET d1 == add_bytes(add_bytes(d, repeat_space(indent)), entries[index].k)
             d2 == add_bytes(d1, <<Ch.colon, Ch.sp>>)
         IN  yaml_entries(entries, index + 1, indent,
                 add_bytes(stringify_with_indent(entries[index].v, d2, indent + 2),
                           <<Ch.lf>>))

stringify_with_indent(n, d, indent) ==
    IF n.type = "None" THEN add_bytes(d, T_null)
    ELSE IF n.type = "Boolean" THEN add_bytes(d, bool_to_string(n.b))
    ELSE IF n.type = "Number" THEN add_bytes(d, numeric_text(n))
    ELSE IF n.type = "Str" THEN
        IF contains(n.s, Ch.lf) \/ contains(n.s, Ch.quote)
        THEN yaml_lines(lines(n.s, <<>>), 1, indent, add_bytes(d, <<124, Ch.lf>>))
        ELSE add_bytes(d, n.s)
    ELSE IF n.type = "Array" THEN
        IF n.items = <<>> THEN add_bytes(d, <<Ch.lbrack, Ch.rbrack>>)
        ELSE yaml_items(n.items, 1, indent, add_bytes(d, <<Ch.lf>>))
    ELSE IF n.entries = <<>> THEN add_bytes(d, <<Ch.lbrace, Ch.rbrace>>)
         ELSE yaml_entries(n.entries, 1, indent, add_bytes(d, <<Ch.lf>>))

to_yaml(n, d) == stringify_with_indent(n, d, 0)

(***************************************************************************)
(* The pretty printer (json_lib/misc/mod.rs, print).                       *)
(***************************************************************************)
\* a comma after every child
comma_always(i, len) == TRUE

\* if i < array.len() - 1, i counted from 0
comma_follows(i, len) == i < len - 1

\* the match over the Numeric variants: to_string for each of the nine
print_number(v) ==
    IF v.kind = "Float" THEN f64_to_string(v.mant, v.exp)
    ELSE IF v.wide # <<>> THEN v.wide
    ELSE i64_to_string(v.n)

RECURSIVE print(_, _, _, _), print_items(_, _, _, _, _), print_entries(_, _, _, _, _)

\* the for loop of the Array arm, from element index on (index counted from 1)
print_items(array, index, d, indent, current_indent) ==
    IF index > Len(array) THEN d
    ELSE LET d1 == add_bytes(d, repeat_space(current_indent + indent))
             d2 == print(array[index], d1, indent, current_indent + indent)
             d3 == IF comma_follows(index - 1, Len(array))
                   THEN add_bytes(d2, <<Ch.comma>>) ELSE d2
         IN  print_items(array, index + 1, add_bytes(d3, <<Ch.lf>>), indent, current_indent)

\* the for loop of the Object arm, from entry index on (index counted from 1)
print_entries(map, index, d, indent, current_indent) ==
    IF index > Len(map) THEN d
    ELSE LET d1 == add_bytes(d, repeat_space(current_indent + indent))
             d2 == add_bytes(d1, <<Ch.quote>> \o map[index].k \o <<Ch.quote>>)
             d3 == add_bytes(d2, <<Ch.colon, Ch.sp>>)
             d4 == print(map[index].v, d3, indent, current_indent + indent)
             d5 == IF comma_follows(index - 1, Len(map))
                   THEN add_bytes(d4, <<Ch.comma>>) ELSE d4
         IN  print_entries(map, index + 1, add_bytes(d5, <<Ch.lf>>), indent, current_indent)

print(n, d, indent, current_indent) ==
    IF n.type = "Boolean" THEN add_bytes(d, bool_to_string(n.b))
    ELSE IF n.type = "Number" THEN add_bytes(d, print_number(n))
    ELSE IF n.type = "Str" THEN add_bytes(d, <<Ch.quote>> \o n.s \o <<Ch.quote>>)
    ELSE IF n.type = "None" THEN add_bytes(d, T_null)
    ELSE IF n.type = "Array" THEN
        LET d1 == print_items(n.items, 1, add_bytes(d, <<Ch.lbrack, Ch.lf>>), indent,
                              current_indent)
        IN  add_bytes(add_bytes(d1, repeat_space(current_indent)), <<Ch.rbrack>>)
    ELSE
        LET d1 == print_entries(n.entries, 1, add_bytes(d, <<Ch.lbrace, Ch.lf>>), indent,
                                current_indent)
        IN  add_bytes(add_bytes(d1, repeat_space(current_indent)), <<Ch.rbrace>>)

(***************************************************************************)
(* The TOML serializer (stringify/toml.rs).  A call's outcome is the       *)
(* Result it returns ("ok" or "err" with the message) or "panic" for a     *)
(* fault, together with the Destination as the call leaves it.  A call     *)
(* made after an error or a fault is never reached: it returns its input.  *)
(***************************************************************************)
ERR_TOML_ROOT == "TOML format requires a Object at the root level"
ERR_TOML_MIXED == "TOML arrays must contain elements of the same type"

TOk(d) == [st |-> "ok", err |-> "", dest |-> d]

TErr(msg, d) == [st |-> "err", err |-> msg, dest |-> d]

TPanic(d) == [st |-> "panic", err |-> "", dest |-> d]

\* destination.add_bytes(text) on the way of a call that has not failed
put(r, text) == IF r.st = "ok" THEN TOk(add_bytes(r.dest, text)) ELSE r

stringify_str(s, r) == put(put(put(r, <<Ch.quote>>), s), <<Ch.quote>>)

stringify_bool(b, r) == put(r, bool_to_string(b))

stringify_number(value, r) == put(r, numeric_text(value))

get_node_type(n) ==
    IF n.type = "Str" THEN "string"
    ELSE IF n.type = "Boolean" THEN "boolean"
    ELSE IF n.type = "Number" THEN "number"
    ELSE IF n.type = "Array" THEN "array"
    ELSE IF n.type = "Object" THEN "object"
    ELSE "null"

\* items.iter().all(|item| matches!(item, Node::Object(_))): true of an empty array
all_objects(items) == \A j \in 1..Len(items) : items[j].type = "Object"

RECURSIVE stringify_value(_, _, _), stringify_array(_, _), stringify_array_items(_, _, _)

\* the second for loop of stringify_array, from element i on
stringify_array_items(items, i, r) ==
    IF r.st # "ok" \/ i > Len(items) THEN r
    ELSE stringify_array_items(items, i + 1,
             stringify_value(items[i], FALSE,
                             IF i > 1 THEN put(r, <<Ch.comma, Ch.sp>>) ELSE r))

\* items[0] faults on an empty vector
stringify_array(items, r) ==
    IF r.st # "ok" THEN r
    ELSE IF Len(items) = 0 THEN TPanic(r.dest)
    ELSE IF \E j \in 1..Len(items) : get_node_type(items[j]) # get_node_type(items[1])
         THEN TErr(ERR_TOML_MIXED, r.dest)
    ELSE put(stringify_array_items(items, 1, put(r, <<Ch.lbrack>>)), <<Ch.rbrack>>)

stringify_value(value, add_cr, r) ==
    LET r1 == IF value.type = "Str" THEN stringify_str(value.s, r)
              ELSE IF value.type = "Boolean" THEN stringify_bool(value.b, r)
              ELSE IF value.type = "Number" THEN stringify_number(value, r)
              ELSE IF value.type = "Array" THEN stringify_array(value.items, r)
              ELSE put(r, T_null)
    IN  IF r.st # "ok" \/ value.type = "Object" THEN r
        ELSE IF add_cr THEN put(r1, <<Ch.lf>>)
        ELSE r1

\* returns the outcome and is_first as the call leaves it
stringify_key_value_pair(prefix, r, is_first, key, value) ==
    LET header == prefix # <<>> /\ is_first
        r1 == IF header THEN put(put(put(r, <<Ch.lbrack>>), prefix), <<Ch.rbrack, Ch.lf>>)
              ELSE r
        r2 == put(put(r1, key), <<Ch.sp, Ch.eq, Ch.sp>>)
    IN  [r |-> stringify_value(value, TRUE, r2),
         is_first |-> IF r.st = "ok" /\ header THEN FALSE ELSE is_first]

calculate_prefix(prefix, key) ==
    IF prefix = <<>> THEN key ELSE prefix \o <<Ch.dot>> \o key

\* dict.iter().collect::<BTreeMap<_, _>>(): the entries in ascending key order
dict_sorted(entries) == sort_entries(entries, <<>>)

\* the entries process_key_value_pairs inserts into tables
tables_of(sorted) == SelectSeq(sorted, LAMBDA e : e.v.type = "Object")

\* the entries process_key_value_pairs inserts into array_tables
array_tables_of(sorted) ==
    SelectSeq(sorted, LAMBDA e : e.v.type = "Array" /\ all_objects(e.v.items))

\* the for loop of process_key_value_pairs from entry i on: st is [r, is_first]
RECURSIVE process_key_value_pairs(_, _, _, _)
process_key_value_pairs(sorted, i, prefix, st) ==
    IF st.r.st # "ok" \/ i > Len(sorted) THEN st
    ELSE LET e == sorted[i]
             skip == \/ e.v.type = "Object"
                     \/ e.v.type = "Array" /\ all_objects(e.v.items)
         IN  process_key_value_pairs(sorted, i + 1, prefix,
                 IF skip THEN st
                 ELSE stringify_key_value_pair(prefix, st.r, st.is_first, e.k, e.v))

\* the for loop of process_simple_values from entry i on
RECURSIVE process_simple_values(_, _, _)
process_simple_values(sorted, i, r) ==
    IF r.st # "ok" \/ i > Len(sorted) THEN r
    ELSE process_simple_values(sorted, i + 1,
             IF sorted[i].v.type = "Object" THEN r
             ELSE stringify_key_value_pair(<<>>, r, TRUE, sorted[i].k, sorted[i].v).r)

RECURSIVE stringify_object(_, _, _), process_nested_tables(_, _, _, _),
          process_array_tables(_, _, _, _), process_array_items(_, _, _, _),
          process_nested_array_table(_, _, _), process_nested_objects(_, _, _, _),
          process_inner_items(_, _, _, _)

\* the for loop of process_nested_tables from table i on
process_nested_tables(tables, i, prefix, r) ==
    IF r.st # "ok" \/ i > Len(tables) THEN r
    ELSE process_nested_tables(tables, i + 1, prefix,
             stringify_object(tables[i].v.entries,
                              calculate_prefix(prefix, tables[i].k), r))

\* the inner for loop of process_array_tables: the items of one array from j on
process_array_items(items, j, new_prefix, r) ==
    IF r.st # "ok" \/ j > Len(items) THEN r
    ELSE process_array_items(items, j + 1, new_prefix,
             process_nested_array_table(items[j].entries, new_prefix,
                 put(put(put(r, <<Ch.lbrack, Ch.lbrack>>), new_prefix),
                     <<Ch.rbrack, Ch.rbrack, Ch.lf>>)))

\* the outer for loop of process_array_tables from array i on
process_array_tables(array_tables, i, prefix, r) ==
    IF r.st # "ok" \/ i > Len(array_tables) THEN r
    ELSE process_array_tables(array_tables, i + 1, prefix,
             process_array_items(array_tables[i].v.items, 1,
                                 calculate_prefix(prefix, array_tables[i].k), r))

process_nested_array_table(nested, new_prefix, r) ==
    LET nested_sorted == dict_sorted(nested)
    IN  process_nested_objects(nested_sorted, 1, new_prefix,
                               process_simple_values(nested_sorted, 1, r))

\* the for loop over the items of one array of objects in process_nested_objects
process_inner_items(items, j, inner_prefix, r) ==
    IF r.st # "ok" \/ j > Len(items) THEN r
    ELSE process_inner_items(items, j + 1, inner_prefix,
             stringify_object(items[j].entries, inner_prefix, r))

\* the for loop of process_nested_objects from entry i on
process_nested_objects(sorted, i, new_prefix, r) ==
    IF r.st # "ok" \/ i > Len(sorted) THEN r
    ELSE LET v == sorted[i].v
             inner_prefix == new_prefix \o <<Ch.dot>> \o sorted[i].k
         IN  process_nested_objects(sorted, i + 1, new_prefix,
                 IF v.type = "Object" THEN stringify_object(v.entries, inner_prefix, r)
                 ELSE IF v.type = "Array" /\ all_objects(v.items)
                      THEN process_inner_items(v.items, 1, inner_prefix, r)
                 ELSE r)

stringify_object(dict, prefix, r) ==
    IF r.st # "ok" \/ dict = <<>> THEN r
    ELSE LET sorted == dict_sorted(dict)
             r1 == process_key_value_pairs(sorted, 1, prefix,
                                           [r |-> r, is_first |-> TRUE]).r
             r2 == process_nested_tables(tables_of(sorted), 1, prefix, r1)
         IN  process_array_tables(array_tables_of(sorted), 1, prefix, r2)

\* a root check that lets an Array root through as an inline array
stringify_toml_array_root(n, d) ==
    IF n.type = "Object" THEN stringify_object(n.entries, <<>>, TOk(d))
    ELSE IF n.type = "Array" THEN stringify_array(n.items, TOk(d))
    ELSE TErr(ERR_TOML_ROOT, d)

stringify_toml(n, d) ==
    IF n.type = "Object" THEN stringify_object(n.entries, <<>>, TOk(d))
    ELSE TErr(ERR_TOML_ROOT, d)


(***************************************************************************)
(* Bounded sets of Node trees: the values the construction helpers of      *)
(* nodes/node.rs can build.  A tree's size is the number of its nodes.     *)
(***************************************************************************)
KeyA == <<Ch.a>>
KeyB == <<Ch.b>>

\* the iteration orders of a HashMap holding some of the keys a and b
KeyOrders == {<<>>, <<KeyA>>, <<KeyB>>, <<KeyA, KeyB>>, <<KeyB, KeyA>>}

RECURSIVE TreesOfSize(_, _), Forest(_, _, _)

\* the sequences of j trees over the leaves L whose sizes add up to m
Forest(L, m, j) ==
    IF j = 0 THEN (IF m = 0 THEN {<<>>} ELSE {})
    ELSE UNION { { <<t>> \o f : t \in TreesOfSize(L, k), f \in Forest(L, m - k, j - 1) } :
                 k \in 1..(m - (j - 1)) }

\* the trees of exactly n nodes over the leaves L
TreesOfSize(L, n) ==
    (IF n = 1 THEN L ELSE {})
    \cup UNION { { ArrayNode(f) : f \in Forest(L, n - 1, j) } : j \in 0..(n - 1) }
    \cup UNION { { ObjectNode([i \in 1..Len(ks) |-> Entry(ks[i], f[i])]) :
                       f \in Forest(L, n - 1, Len(ks)) } : ks \in KeyOrders }

TreesUpTo(L, n) == UNION { TreesOfSize(L, k) : k \in 1..n }

\* the wrappings applied in turn, innermost first: TRUE an array, FALSE an object
RECURSIVE ApplyWraps(_, _)
ApplyWraps(t, ws) ==
    IF ws = <<>> THEN t
    ELSE ApplyWraps(IF ws[1] THEN ArrayNode(<<t>>) ELSE ObjectNode(<<Entry(KeyA, t)>>),
                    Tail(ws))

WrapSeqs(d) == UNION { [1..k -> BOOLEAN] : k \in 0..d }

\* what a Destination may hold before a call appends to it
InitialDests == {<<>>, <<Ch.x>>}

(***************************************************************************)
(* stringify_toml called once on a Node and a Destination.                 *)
(***************************************************************************)
TomlMaxNodes == 4
TomlMaxWraps == 2

TomlLeaves == {IntegerNode(1), StrNode(<<Ch.a>>)}

\* the scalar roots besides the leaves
TomlScalars == {NoneNode, BooleanNode(TRUE), FloatNode(15, -1)}

TomlInit ==
    /\ pc = "toml"
    /\ \E t \in TreesUpTo(TomlLeaves, TomlMaxNodes) \cup TomlScalars :
       \E ws \in WrapSeqs(TomlMaxWraps) :
          node = ApplyWraps(t, ws)
    /\ src = Source(<<>>)
    /\ dest \in InitialDests
    /\ prev = dest
    /\ out = [st |-> "none", err |-> ""]

StringifyToml ==
    /\ pc = "toml"
    /\ LET r == stringify_toml(node, dest)
       IN  /\ out' = [st |-> r.st, err |-> r.err]
           /\ dest' = r.dest
    /\ pc' = "toml_done"
    /\ UNCHANGED <<node, src, prev>>

TomlNext == StringifyToml

SpecToml == TomlInit /\ [][TomlNext]_vars


(***************************************************************************)
(* misc::strip.  An outcome is [st, src, dest]; st is "panic" when an      *)
(* unwrap() of source.current() meets None.                                *)
(***************************************************************************)
SOk(s, d) == [st |-> "ok", src |-> s, dest |-> d]

SPanic(s, d) == [st |-> "panic", src |-> s, dest |-> d]

\* the inner while loop that copies a string literal, and the write of the
\* closing quote that follows it
RECURSIVE strip_string(_, _)
strip_string(s, d) ==
    IF more(s) /\ current(s) # Ch.quote
    THEN LET esc == current(s) = Ch.bslash
             d1 == IF esc THEN add_bytes(d, <<current(s)>>) ELSE d
             s1 == IF esc THEN next(s) ELSE s
         IN  IF current(s1) = None THEN SPanic(s1, d1)
             ELSE strip_string(next(s1), add_byte(d1, as_u8(current(s1))))
    ELSE IF current(s) = None THEN SPanic(s, d)
    ELSE SOk(s, add_bytes(d, <<current(s)>>))

RECURSIVE strip(_, _)
strip(s, d) ==
    IF ~more(s) THEN SOk(s, d)
    ELSE LET c == current(s)
         IN  IF c = Ch.sp \/ c = Ch.tab \/ c = Ch.lf \/ c = Ch.cr
             THEN strip(next(s), d)
             ELSE LET d1 == add_byte(d, as_u8(c))
                  IN  IF c = Ch.quote
                      THEN LET r == strip_string(next(s), d1)
                           IN  IF r.st = "panic" THEN r
                               ELSE strip(next(r.src), r.dest)
                      ELSE strip(next(s), d1)


(***************************************************************************)
(* Claims about stringify_toml.                                            *)
(***************************************************************************)
\* the node types of the elements of an array
ElementTypes(items) == { get_node_type(items[j]) : j \in 1..Len(items) }

\* n holds, at some depth, an array whose elements are of more than one type
RECURSIVE HasMixedArray(_)
HasMixedArray(n) ==
    IF n.type = "Array"
    THEN \/ Cardinality(ElementTypes(n.items)) > 1
         \/ \E j \in 1..Len(n.items) : HasMixedArray(n.items[j])
    ELSE IF n.type = "Object"
    THEN \E j \in 1..Len(n.entries) : HasMixedArray(n.entries[j].v)
    ELSE FALSE

\* C2: stringify_toml on an Object that contains a mixed-type array returns
\* an error, and when it returns that error the Destination holds what it
\* held before the call (no partial output).
C2_MixedArrayErrorNoPartialOutput ==
    (pc = "toml_done" /\ node.type = "Object" /\ HasMixedArray(node))
        => (out.st = "err" /\ out.err = ERR_TOML_MIXED /\ dest = prev)

\* C3: stringify_toml returns Ok, without a fault, for every Object-rooted
\* tree whose arrays are all type-homogeneous (empty arrays included); its
\* only failures are the root error and the mixed-array error.
C3_TomlTotalOnHomogeneous ==
    pc = "toml_done" =>
        /\ out.st \in {"ok", "err"}
        /\ out.st = "err" => out.err \in {ERR_TOML_ROOT, ERR_TOML_MIXED}
        /\ (node.type = "Object" /\ ~HasMixedArray(node)) => out.st = "ok"

\* C4: for every root that is not an Object stringify_toml returns the
\* root-level error and leaves the Destination as it was.
C4_NonObjectRootError ==
    (pc = "toml_done" /\ node.type # "Object")
        => (out.st = "err" /\ out.err = ERR_TOML_ROOT /\ dest = prev)

\* C4 witness: the call has returned for an Array root and a Destination
\* that already held text.
C4_Witness ==
    /\ pc = "toml_done"
    /\ node.type = "Array"
    /\ Len(node.items) > 0
    /\ prev # <<>>
    /\ out.st = "err"


(***************************************************************************)
(* The whitespace stripper run twice: strip a valid JSON text, then strip  *)
(* what the first run wrote.                                               *)
(***************************************************************************)
StripMaxAtoms == 2

\* the pieces a string literal's contents are made of
StrAtoms ==
    { <<Ch.a>>, <<Ch.sp>>, <<Ch.Gcedilla>>,
      <<Ch.bslash, Ch.quote>>, <<Ch.bslash, Ch.bslash>> }

RECURSIVE StrBodies(_)
StrBodies(k) ==
    IF k = 0 THEN { <<>> }
    ELSE StrBodies(k - 1) \cup { b \o x : b \in StrBodies(k - 1), x \in StrAtoms }

StrLits(k) == { <<Ch.quote>> \o b \o <<Ch.quote>> : b \in StrBodies(k) }

WsRuns == { <<>>, <<Ch.sp>>, <<Ch.lf>>, <<Ch.tab, Ch.cr>> }

JsonScalars == StrLits(StripMaxAtoms) \cup { <<Ch.d1>>, T_true }

JsonSmallScalars == StrLits(1) \cup { <<Ch.d2>>, T_null }

\* valid JSON texts: a scalar, a two-element array or a one-member object,
\* with whitespace around the tokens
JsonTexts(w1, w2, x, y, key) ==
    { w1 \o x \o w2,
      <<Ch.lbrack>> \o w1 \o x \o w2 \o <<Ch.comma>> \o w1 \o y \o <<Ch.rbrack>>,
      w2 \o <<Ch.lbrace>> \o key \o w1 \o <<Ch.colon>> \o w2 \o x \o <<Ch.rbrace>> \o w1 }

StripInit ==
    /\ pc = "strip"
    /\ node = NoNode
    /\ \E w1 \in WsRuns, w2 \in WsRuns, x \in JsonScalars :
       \E y \in JsonSmallScalars, key \in StrLits(1) :
          \E text \in JsonTexts(w1, w2, x, y, key) : src = Source(text)
    /\ dest \in InitialDests
    /\ prev = dest
    /\ out = [st |-> "none", err |-> ""]

\* strip_whitespace(source, destination)
Strip ==
    /\ pc = "strip"
    /\ LET r == strip(src, dest)
       IN  /\ src' = r.src
           /\ dest' = r.dest
           /\ out' = [st |-> r.st, err |-> ""]
    /\ pc' = "stripped"
    /\ UNCHANGED <<node, prev>>

\* strip_whitespace on a Source over what the first call wrote, into a
\* fresh Destination; prev keeps the first call's output
Restrip ==
    /\ pc = "stripped"
    /\ out.st = "ok"
    /\ LET first == SubSeq(dest, Len(prev) + 1, Len(dest))
           text == from_utf8(first)
           r == IF text = <<None>> THEN SPanic(src, <<>>)
                ELSE strip(Source(text), <<>>)
       IN  /\ prev' = first
           /\ src' = r.src
           /\ dest' = r.dest
           /\ out' = [st |-> IF text = <<None>> THEN "not_text" ELSE r.st,
                      err |-> ""]
    /\ pc' = "restripped"
    /\ UNCHANGED node

StripNext == Strip \/ Restrip

SpecStrip == StripInit /\ [][StripNext]_vars

\* the characters of a text that remain when the spaces, tabs, CRs and LFs
\* outside its string literals are removed
RECURSIVE Kept(_, _)
Kept(text, inside) ==
    IF text = <<>> THEN <<>>
    ELSE LET c == text[1]
         IN  IF inside
             THEN IF c = Ch.bslash /\ Len(text) >= 2
                  THEN <<c, text[2]>> \o Kept(SubSeq(text, 3, Len(text)), TRUE)
                  ELSE <<c>> \o Kept(Tail(text), c # Ch.quote)
             ELSE IF c \in {Ch.sp, Ch.tab, Ch.cr, Ch.lf}
                  THEN Kept(Tail(text), FALSE)
                  ELSE <<c>> \o Kept(Tail(text), c = Ch.quote)

\* C7: stripping is idempotent on valid JSON text: stripping the output of
\* the first call returns normally and writes that same output again.
C7_StripIdempotent ==
    pc = "restripped" => (out.st = "ok" /\ dest = prev)

\* C8: strip_whitespace appends exactly the input's characters, in order,
\* without the spaces, tabs, CRs and LFs outside string literals; the
\* characters of a string literal are copied unchanged.
C8_StripWritesInputWithoutOuterWhitespace ==
    (pc = "stripped" /\ out.st = "ok")
        => dest = prev \o as_bytes(Kept(src.buf, FALSE))


(***************************************************************************)
(* parse called once on a Source.  The texts are runs of tokens, bare or   *)
(* put inside an object or an array, with or without text after them.      *)
(***************************************************************************)
ParseMaxTokens == 3

ParseTokens ==
    { <<Ch.lbrace>>, <<Ch.rbrace>>, <<Ch.lbrack>>, <<Ch.rbrack>>,
      <<Ch.quote, Ch.a, Ch.quote>>, <<Ch.a, Ch.quote>>, <<Ch.colon>>, <<Ch.comma>>,
      <<Ch.d1>>, <<Ch.minus, Ch.d2>>, <<Ch.dot, Ch.d5>>, <<Ch.e, Ch.d2>>,
      <<Ch.sp>>, T_true }

RECURSIVE TokenRuns(_)
TokenRuns(k) ==
    IF k = 0 THEN { <<>> }
    ELSE { <<>> } \cup { x \o r : x \in ParseTokens, r \in TokenRuns(k - 1) }

\* a run of tokens as it is, as the member list of an object, as the
\* element list of an array, and as the value of an object's member
Framed(core) ==
    { core,
      <<Ch.lbrace>> \o core \o <<Ch.rbrace>>,
      <<Ch.lbrack>> \o core \o <<Ch.rbrack>>,
      <<Ch.lbrace, Ch.quote, Ch.b, Ch.quote, Ch.colon>> \o core \o <<Ch.rbrace>> }

ParseSuffixes == { <<>>, <<Ch.rbrace, Ch.dot>> }

ParseInit ==
    /\ pc = "parse"
    /\ node = NoNode
    /\ \E core \in TokenRuns(ParseMaxTokens), suffix \in ParseSuffixes :
       \E text \in Framed(core) : src = Source(text \o suffix)
    /\ dest = <<>>
    /\ prev = <<>>
    /\ out = PErr("", Source(<<>>))

\* parse(source)
Parse ==
    /\ pc = "parse"
    /\ LET r == parse(src)
       IN  /\ out' = r
           /\ src' = r.src
    /\ pc' = "parsed"
    /\ UNCHANGED <<node, dest, prev>>

ParseNext == Parse

SpecParse == ParseInit /\ [][ParseNext]_vars

\* the position of the first character of text at or after p that is not
\* whitespace, Len(text) + 1 when there is none
RECURSIVE FirstNonWs(_, _)
FirstNonWs(text, p) ==
    IF p <= Len(text) /\ is_whitespace(text[p]) THEN FirstNonWs(text, p + 1) ELSE p

\* text is an object literal whose first member starts with something other
\* than a double quote
BadFirstKey(text) ==
    LET b == FirstNonWs(text, 1)
        k == FirstNonWs(text, b + 1)
    IN  /\ b <= Len(text)
        /\ text[b] = Ch.lbrace
        /\ k <= Len(text)
        /\ text[k] \notin {Ch.quote, Ch.rbrace}

\* C5: an object literal whose key position holds something that does not
\* start with a double quote makes parse return an error, so no Object comes
\* out of such input.
C5_UnquotedKeyIsError ==
    (pc = "parsed" /\ BadFirstKey(src.buf)) => ~out.ok

\* texts that may follow a value; none starts with a character that
\* continues a number literal
TrailTexts ==
    { <<>>, <<Ch.x>>, <<Ch.sp, Ch.x>>, <<Ch.rbrace, Ch.dot>>, <<Ch.comma, Ch.d1>>,
      <<Ch.quote>>, <<Ch.minus>> }

\* texts that start with a character of a number literal
NumberTrailTexts == { <<Ch.d1>>, <<Ch.dot>>, <<Ch.e>> }

\* C9: after a successful parse the cursor is just past the last character
\* of the value: the last character read belongs to the value (it is not
\* whitespace), and whatever follows the value is neither read nor able to
\* change the result: the same value followed by any other text parses to
\* the same Node with the cursor at the same place.
C9_CursorJustPastValue ==
    (pc = "parsed" /\ out.ok) =>
        LET p == src.pos
            value == SubSeq(src.buf, 1, p - 1)
            trails == TrailTexts \cup
                      (IF out.node.type = "Number" THEN {} ELSE NumberTrailTexts)
        IN  /\ p >= 2
            /\ p <= Len(src.buf) + 1
            /\ ~is_whitespace(src.buf[p - 1])
            /\ \A trail \in trails :
                  LET r == parse(Source(value \o trail))
                  IN  r.ok /\ NodeEq(r.node, out.node) /\ r.src.pos = p

\* C9 witness: an Object was parsed and the cursor rests on text that is
\* not whitespace.
C9_Witness ==
    /\ pc = "parsed"
    /\ out.ok
    /\ out.node.type = "Object"
    /\ more(src)
    /\ current(src) = Ch.rbrace

\* every Number of a tree is an Integer or a Float
RECURSIVE NumbersAreIntegerOrFloat(_)
NumbersAreIntegerOrFloat(n) ==
    IF n.type = "Number" THEN n.kind \in {"Integer", "Float"}
    ELSE IF n.type = "Array"
    THEN \A j \in 1..Len(n.items) : NumbersAreIntegerOrFloat(n.items[j])
    ELSE IF n.type = "Object"
    THEN \A j \in 1..Len(n.entries) : NumbersAreIntegerOrFloat(n.entries[j].v)
    ELSE TRUE

\* the characters of a text hold a point or an exponent mark
HasPointOrExponent(text) ==
    \E j \in 1..Len(text) : text[j] \in {Ch.dot, Ch.e, Ch.E}

\* C10: every Number in a parsed tree is an Integer or a Float, and a number
\* literal gives an Integer exactly when it holds no point and no exponent.
C10_NumbersIntegerOrFloat ==
    (pc = "parsed" /\ out.ok) =>
        /\ NumbersAreIntegerOrFloat(out.node)
        /\ out.node.type = "Number" =>
              LET literal == SubSeq(src.buf, FirstNonWs(src.buf, 1), src.pos - 1)
              IN  (out.node.kind = "Integer") <=> ~HasPointOrExponent(literal)

\* C10 witness: a literal with an exponent and no point was parsed to a Float
C10_Witness ==
    /\ pc = "parsed"
    /\ out.ok
    /\ out.node.type = "Number"
    /\ out.node.kind = "Float"
    /\ SubSeq(src.buf, 1, src.pos - 1) = <<Ch.d1, Ch.e, Ch.d2>>


(***************************************************************************)
(* The round trip: the default stringify writes a Node, parse reads what   *)
(* was written.                                                            *)
(***************************************************************************)
RoundTripMaxNodes == 3

RoundTripLeaves ==
    { NoneNode, BooleanNode(FALSE), IntegerNode(0 - 12), FloatNode(15, 0 - 1),
      FloatNode(1, 0), StrNode(<<Ch.quote, Ch.lf, Ch.a>>) }

RoundTripInit ==
    /\ pc = "stringify"
    /\ node \in TreesUpTo(RoundTripLeaves, RoundTripMaxNodes)
    /\ src = Source(<<>>)
    /\ dest \in InitialDests
    /\ prev = dest
    /\ out = PErr("", Source(<<>>))

\* stringify(node, destination)
Stringify ==
    /\ pc = "stringify"
    /\ dest' = stringify(node, dest)
    /\ pc' = "stringified"
    /\ UNCHANGED <<node, src, out, prev>>

\* parse on a Source over the text the call has written
Reparse ==
    /\ pc = "stringified"
    /\ LET written == SubSeq(dest, Len(prev) + 1, Len(dest))
           r == parse(Source(from_utf8(written)))
       IN  /\ out' = r
           /\ src' = r.src
    /\ pc' = "reparsed"
    /\ UNCHANGED <<node, dest, prev>>

RoundTripNext == Stringify \/ Reparse

SpecRoundTrip == RoundTripInit /\ [][RoundTripNext]_vars

\* C1: parsing what the default stringify wrote for a tree of None, Boolean,
\* Str, Array, Object, Integer and Float gives a Node equal to the tree,
\* Objects compared without regard to the order of their keys.
C1_RoundTrip ==
    pc = "reparsed" => (out.ok /\ NodeEq(out.node, node))

(***************************************************************************)
(* Bencode: an Object is encoded, then the same Object built with its keys *)
(* inserted in another order is encoded into a fresh Destination.          *)
(***************************************************************************)
BencodeMaxKeys == 2

BencodeKeys == { <<Ch.a>>, <<Ch.a, Ch.b>>, <<Ch.b>> }

\* the sequences of up to k distinct keys
KeySeqs(k) ==
    { q \in UNION { [1..j -> BencodeKeys] : j \in 0..k } :
         \A g, h \in 1..Len(q) : q[g] = q[h] => g = h }

BencodeValues ==
    { IntegerNode(1), StrNode(<<Ch.b>>), ObjectNode(<<>>),
      ObjectNode(<<Entry(<<Ch.b>>, IntegerNode(1)), Entry(<<Ch.a>>, IntegerNode(2))>>),
      ObjectNode(<<Entry(<<Ch.a, Ch.b>>, StrNode(<<>>)), Entry(<<Ch.a>>, NoneNode)>>),
      ArrayNode(<<ObjectNode(<<Entry(<<Ch.b>>, IntegerNode(1)),
                               Entry(<<Ch.a>>, IntegerNode(2))>>)>>) }

BencodeInit ==
    /\ pc = "bencode"
    /\ \E ks \in KeySeqs(BencodeMaxKeys) :
       \E vs \in [1..Len(ks) -> BencodeValues] :
          node = ObjectNode([j \in 1..Len(ks) |-> Entry(ks[j], vs[j])])
    /\ src = Source(<<>>)
    /\ dest \in InitialDests
    /\ prev = dest
    /\ out = [st |-> "none", node |-> NoNode]

\* the permutations of 1..k
Perms(k) == { q \in [1..k -> 1..k] : \A g, h \in 1..k : q[g] = q[h] => g = h }

\* the Nodes equal to n: n with the entries of its Objects in any order
RECURSIVE Reorderings(_), ReorderedItems(_)
Reorderings(n) ==
    IF n.type = "Array" THEN { ArrayNode(items) : items \in ReorderedItems(n.items) }
    ELSE IF n.type = "Object"
    THEN LET vals == [j \in 1..Len(n.entries) |-> n.entries[j].v]
         IN  { ObjectNode([j \in 1..Len(vs) |-> Entry(n.entries[q[j]].k, vs[q[j]])]) :
                   vs \in ReorderedItems(vals), q \in Perms(Len(n.entries)) }
    ELSE { n }

ReorderedItems(items) ==
    IF items = <<>> THEN { <<>> }
    ELSE { <<h>> \o r : h \in Reorderings(items[1]), r \in ReorderedItems(Tail(items)) }

\* to_bencode(node, destination)
ToBencode ==
    /\ pc = "bencode"
    /\ dest' = to_bencode(node, dest)
    /\ out' = [st |-> "ok", node |-> node]
    /\ pc' = "encoded"
    /\ UNCHANGED <<node, src, prev>>

\* to_bencode on an equal Object whose keys were inserted in another order,
\* into a fresh Destination; prev keeps what the first call wrote
Reinsert ==
    /\ pc = "encoded"
    /\ \E m \in Reorderings(node) :
          /\ out' = [st |-> "ok", node |-> m]
          /\ dest' = to_bencode(m, <<>>)
    /\ prev' = SubSeq(dest, Len(prev) + 1, Len(dest))
    /\ pc' = "reordered"
    /\ UNCHANGED <<node, src>>

BencodeNext == ToBencode \/ Reinsert

SpecBencode == BencodeInit /\ [][BencodeNext]_vars

\* the entry of a non-empty sequence of entries whose key is least
LeastEntry(entries) ==
    CHOOSE j \in 1..Len(entries) :
        \A h \in 1..Len(entries) : ~key_less(entries[h].k, entries[j].k)

\* the bencoding of a Node with the entries of every Object taken in
\* ascending order of their keys
RECURSIVE Ascending(_), AscendingItems(_), AscendingEntries(_)
Ascending(n) ==
    IF n.type = "Array" THEN <<Ch.l>> \o AscendingItems(n.items) \o <<Ch.e>>
    ELSE IF n.type = "Object" THEN <<Ch.d>> \o AscendingEntries(n.entries) \o <<Ch.e>>
    ELSE to_bencode(n, <<>>)

AscendingItems(items) ==
    IF items = <<>> THEN <<>>
    ELSE Ascending(items[1]) \o AscendingItems(Tail(items))

AscendingEntries(entries) ==
    IF entries = <<>> THEN <<>>
    ELSE LET j == LeastEntry(entries)
             rest == SubSeq(entries, 1, j - 1) \o SubSeq(entries, j + 1, Len(entries))
         IN  to_bencode(StrNode(entries[j].k), <<>>) \o Ascending(entries[j].v)
                 \o AscendingEntries(rest)

\* C6: the bencoding of an Object holds its entries in ascending order of
\* their keys at every level, and is the same for every insertion order of
\* the keys.
C6_BencodeSortedAndOrderInvariant ==
    /\ pc = "encoded" => dest = prev \o Ascending(node)
    /\ pc = "reordered" => (dest = prev /\ dest = Ascending(node))

\* C6 witness: keys b then a, at the top and in a nested Object, were
\* encoded, and so was the Object with a inserted before b.
C6_Witness ==
    /\ pc = "reordered"
    /\ Len(node.entries) = 2
    /\ node.entries[1].k = <<Ch.b>>
    /\ node.entries[2].k = <<Ch.a>>
    /\ node.entries[1].v.type = "Object"
    /\ Len(node.entries[1].v.entries) = 2
    /\ out.node.entries[1].k = <<Ch.a>>
    /\ dest[1] = Ch.d
    /\ SubSeq(dest, 2, 4) = <<Ch.d1, Ch.colon, Ch.a>>


(***************************************************************************)
(* parse called on integer literals around the ends of the i64 range.      *)
(***************************************************************************)
IntegerMaxPad == 2

\* digit strings near 2^63 - 1: that number with one digit replaced, its
\* prefixes, and the number followed by one more digit
IntegerBodies ==
    { [I64MaxDigits EXCEPT ![p] = q] : p \in 1..Len(I64MaxDigits), q \in 48..57 }
    \cup { SubSeq(I64MaxDigits, 1, k) : k \in 1..Len(I64MaxDigits) }
    \cup { Append(I64MaxDigits, Ch.d0) }

IntegerInit ==
    /\ pc = "parse"
    /\ node = NoNode
    /\ \E sign \in { <<>>, <<Ch.minus>> }, pad \in 0..IntegerMaxPad :
       \E body \in IntegerBodies, trail \in { <<>>, <<Ch.sp>>, <<Ch.rbrack>> } :
          src = Source(sign \o Zeros(pad) \o body \o trail)
    /\ dest = <<>>
    /\ prev = <<>>
    /\ out = PErr("", Source(<<>>))

IntegerNext == Parse

SpecInteger == IntegerInit /\ [][IntegerNext]_vars

\* the digits of an integer literal: the digits of text after its sign, up
\* to the first character that is not a digit
RECURSIVE LeadingDigits(_)
LeadingDigits(text) ==
    IF text # <<>> /\ is_digit(text[1])
    THEN <<text[1]>> \o LeadingDigits(Tail(text))
    ELSE <<>>

\* a digit string without its leading zeros (one zero is kept for zero)
RECURSIVE Significant(_)
Significant(ds) ==
    IF Len(ds) > 1 /\ ds[1] = Ch.d0 THEN Significant(Tail(ds)) ELSE ds

\* the number a digit string of at most nine digits denotes, read left to right
RECURSIVE DecimalValue(_, _)
DecimalValue(ds, acc) ==
    IF ds = <<>> THEN acc ELSE DecimalValue(Tail(ds), 10 * acc + (ds[1] - 48))

\* a 19-digit string cut into the numbers of its digits 1-7, 8-14 and 15-19
Limbs(ds) ==
    << DecimalValue(SubSeq(ds, 1, 7), 0), DecimalValue(SubSeq(ds, 8, 14), 0),
       DecimalValue(SubSeq(ds, 15, 19), 0) >>

LimbsLeq(x, y) ==
    \/ x[1] < y[1]
    \/ x[1] = y[1] /\ x[2] < y[2]
    \/ x[1] = y[1] /\ x[2] = y[2] /\ x[3] <= y[3]

\* the magnitude sig (digits without leading zeros) is at most 2^63 - 1, or
\* at most 2^63 for a negative literal:
\* 2^63 - 1 = 9223372 0368547 75807
WithinI64(sig, neg) ==
    \/ Len(sig) < 19
    \/ /\ Len(sig) = 19
       /\ LimbsLeq(Limbs(sig), << 9223372, 368547, IF neg THEN 75808 ELSE 75807 >>)

\* C11: an integer literal outside [-2^63, 2^63 - 1] makes parse return the
\* "Invalid integer number" error and no Node; a literal inside the range
\* gives an Integer holding exactly the literal's value.
C11_IntegerRange ==
    pc = "parsed" =>
        LET neg == src.buf[1] = Ch.minus
            ds == LeadingDigits(IF neg THEN Tail(src.buf) ELSE src.buf)
            sig == Significant(ds)
            zero == sig = <<Ch.d0>>
        IN  IF WithinI64(sig, neg)
            THEN /\ out.ok
                 /\ out.node.type = "Number"
                 /\ out.node.kind = "Integer"
                 /\ IF Len(sig) <= 9
                    THEN /\ out.node.wide = <<>>
                         /\ out.node.n = (IF neg THEN 0 - DecimalValue(sig, 0)
                                          ELSE DecimalValue(sig, 0))
                    ELSE /\ out.node.n = 0
                         /\ out.node.wide = (IF neg THEN <<Ch.minus>> ELSE <<>>) \o sig
            ELSE /\ ~out.ok
                 /\ out.err = ERR_INVALID_INTEGER
                 /\ out.node = NoNode

\* C11 witness: the literal 9223372036854775808 (2^63) was refused
C11_Witness ==
    /\ pc = "parsed"
    /\ src.buf = I64MinDigits
    /\ ~out.ok
    /\ out.err = ERR_INVALID_INTEGER


(***************************************************************************)
(* Objects with repeated keys: an object literal is parsed, and the same   *)
(* members are given to the key-value-list constructor.                    *)
(***************************************************************************)
KeysMaxPairs == 3

KeysValues == { Ch.d1, Ch.d2, Ch.d5 }

\* the members `"k":d` of an object literal, ws after each colon and comma
RECURSIVE MemberTexts(_, _)
MemberTexts(pairs, ws) ==
    IF pairs = <<>> THEN <<>>
    ELSE <<Ch.quote>> \o pairs[1].k \o <<Ch.quote, Ch.colon>> \o ws \o <<pairs[1].d>>
         \o (IF Len(pairs) > 1 THEN <<Ch.comma>> \o ws ELSE <<>>)
         \o MemberTexts(Tail(pairs), ws)

KeysInit ==
    /\ pc = "parse"
    /\ node = NoNode
    /\ \E n \in 0..KeysMaxPairs, ws \in { <<>>, <<Ch.sp>> }, inner \in BOOLEAN :
       \E pairs \in [1..n -> [k : {KeyA, KeyB}, d : KeysValues]] :
          LET literal == <<Ch.lbrace>> \o MemberTexts(pairs, ws) \o <<Ch.rbrace>>
          IN  src = Source(IF inner THEN <<Ch.lbrack>> \o literal \o <<Ch.rbrack>>
                           ELSE literal)
    /\ dest = <<>>
    /\ prev = <<>>
    /\ out = PErr("", Source(<<>>))

\* the text of the object literal held by text, without spaces and without
\* the brackets of an enclosing array
LiteralOf(text) ==
    LET body == SelectSeq(text, LAMBDA c : c # Ch.sp)
    IN  IF body[1] = Ch.lbrack THEN SubSeq(body, 2, Len(body) - 1) ELSE body

\* the members of such a literal, in the order of the text: member i is the
\* six characters `"k":d,` from position 6i - 4 on
MembersOf(text) ==
    LET lit == LiteralOf(text)
    IN  [i \in 1..((Len(lit) - 1) \div 6) |->
            [k |-> <<lit[6 * i - 3]>>, v |-> IntegerNode(lit[6 * i] - 48)]]

\* Node::from([(k1, v1), ...]) on the members of the literal just parsed
FromPairs ==
    /\ pc = "parsed"
    /\ node' = from_pairs(MembersOf(src.buf))
    /\ pc' = "built"
    /\ UNCHANGED <<src, dest, out, prev>>

KeysNext == Parse \/ FromPairs

SpecKeys == KeysInit /\ [][KeysNext]_vars

\* the keys of every Object of a tree are pairwise distinct
RECURSIVE KeysDistinct(_)
KeysDistinct(n) ==
    IF n.type = "Array" THEN \A j \in 1..Len(n.items) : KeysDistinct(n.items[j])
    ELSE IF n.type = "Object"
    THEN /\ \A g, h \in 1..Len(n.entries) :
               n.entries[g].k = n.entries[h].k => g = h
         /\ \A j \in 1..Len(n.entries) : KeysDistinct(n.entries[j].v)
    ELSE TRUE

\* obj holds exactly the keys of the members ms, each with the value of the
\* last member that has that key
HoldsLastValues(obj, ms) ==
    /\ obj.type = "Object"
    /\ \A j \in 1..Len(obj.entries) : \E i \in 1..Len(ms) : ms[i].k = obj.entries[j].k
    /\ \A i \in 1..Len(ms) :
          (\A h \in (i + 1)..Len(ms) : ms[h].k # ms[i].k)
              => \E j \in 1..Len(obj.entries) :
                    obj.entries[j].k = ms[i].k /\ obj.entries[j].v = ms[i].v

\* C12: an Object built by parse or by the key-value-list constructor holds
\* every key once, and a repeated key keeps the value of its last occurrence.
C12_LastDuplicateWins ==
    pc = "built" =>
        LET parsed == IF out.node.type = "Array" THEN out.node.items[1] ELSE out.node
        IN  /\ out.ok
            /\ KeysDistinct(out.node)
            /\ KeysDistinct(node)
            /\ HoldsLastValues(parsed, MembersOf(src.buf))
            /\ HoldsLastValues(node, MembersOf(src.buf))

\* C12 witness: the literal {"a":1,"b":2,"a":5} was parsed and its members
\* given to the constructor
C12_Witness ==
    /\ pc = "built"
    /\ src.buf = <<Ch.lbrace, Ch.quote, Ch.a, Ch.quote, Ch.colon, Ch.d1, Ch.comma,
                   Ch.quote, Ch.b, Ch.quote, Ch.colon, Ch.d2, Ch.comma,
                   Ch.quote, Ch.a, Ch.quote, Ch.colon, Ch.d5, Ch.rbrace>>
    /\ Len(out.node.entries) = 2
    /\ Len(node.entries) = 2


(***************************************************************************)
(* parse called on string literals made of plain characters, escapes and   *)
(* malformed escapes.                                                      *)
(***************************************************************************)
StringMaxPieces == 2

\* \u followed by the given characters
UEsc(hex) == <<Ch.bslash, Ch.u>> \o hex

StringPieces ==
    { <<Ch.a>>, <<Ch.sp>>, <<Ch.lf>>, <<Ch.Gcedilla>> }
    \cup { <<Ch.bslash, e>> : e \in { Ch.quote, Ch.bslash, Ch.slash, Ch.b, Ch.f,
                                      Ch.n, Ch.r, Ch.t } }
    \cup { <<Ch.bslash, Ch.x>>, <<Ch.bslash, Ch.a>>, <<Ch.bslash, Ch.sp>>, <<Ch.bslash>> }
    \cup { UEsc(<<Ch.d0, Ch.d0, 52, 56>>),              \* H
           UEsc(<<Ch.d0, Ch.d0, Ch.e, Ch.d9>>),         \* é
           UEsc(<<Ch.d2, Ch.d0, 65, 67>>),              \* €
           UEsc(<<Ch.d, 55, Ch.f, 70>>) }               \* ퟿
    \cup { UEsc(<<Ch.d, 56, Ch.d0, Ch.d0>>),            \* \ud800
           UEsc(<<68, 70, 70, 70>>),                    \* \uDFFF
           UEsc(<<Ch.e, Ch.d0, Ch.d0, Ch.d0>>) }        \* 
    \cup { UEsc(<<>>), UEsc(<<Ch.d0, Ch.d0>>), UEsc(<<Ch.d0, Ch.d0, 52>>),
           UEsc(<<Ch.d0, Ch.d0, Ch.x, Ch.x>>) }

RECURSIVE PieceRuns(_)
PieceRuns(k) ==
    IF k = 0 THEN { <<>> }
    ELSE { <<>> } \cup { x \o r : x \in StringPieces, r \in PieceRuns(k - 1) }

StringInit ==
    /\ pc = "parse"
    /\ node = NoNode
    /\ \E body \in PieceRuns(StringMaxPieces) :
       \E tail \in { <<>>, <<Ch.quote>>, <<Ch.quote, Ch.d1>> } :
          src = Source(<<Ch.quote>> \o body \o tail)
    /\ dest = <<>>
    /\ prev = <<>>
    /\ out = PErr("", Source(<<>>))

StringNext == Parse

SpecString == StringInit /\ [][StringNext]_vars

\* the character each single-character escape stands for
EscapeTable ==
    (Ch.quote :> 34) @@ (Ch.bslash :> 92) @@ (Ch.slash :> 47) @@ (Ch.b :> 8)
    @@ (Ch.f :> 12) @@ (Ch.n :> 10) @@ (Ch.r :> 13) @@ (Ch.t :> 9)

\* the value of a hexadecimal digit, -1 for any other character
HexDigitValue(c) ==
    IF c \in 48..57 THEN c - 48
    ELSE IF c \in 97..102 THEN c - 97 + 10
    ELSE IF c \in 65..70 THEN c - 65 + 10
    ELSE 0 - 1

\* what a string literal denotes, read from position i of text (after the
\* opening quote) with str decoded so far: "ok" with the decoded text and
\* the position after the closing quote, "escape" at the first malformed
\* escape, "open" when the text ends before the closing quote
RECURSIVE Denotes(_, _, _)
Denotes(text, i, str) ==
    IF i > Len(text) THEN [kind |-> "open", str |-> str, end |-> i]
    ELSE IF text[i] = Ch.quote THEN [kind |-> "ok", str |-> str, end |-> i + 1]
    ELSE IF text[i] # Ch.bslash THEN Denotes(text, i + 1, Append(str, text[i]))
    ELSE IF i + 1 > Len(text) THEN [kind |-> "escape", str |-> str, end |-> i]
    ELSE IF text[i + 1] \in DOMAIN EscapeTable
         THEN Denotes(text, i + 2, Append(str, EscapeTable[text[i + 1]]))
    ELSE IF text[i + 1] # Ch.u THEN [kind |-> "escape", str |-> str, end |-> i]
    ELSE IF \/ i + 5 > Len(text)
            \/ \E j \in 2..5 : HexDigitValue(text[i + j]) < 0
         THEN [kind |-> "escape", str |-> str, end |-> i]
    ELSE LET code == 4096 * HexDigitValue(text[i + 2]) + 256 * HexDigitValue(text[i + 3])
                         + 16 * HexDigitValue(text[i + 4]) + HexDigitValue(text[i + 5])
         IN  IF code >= 55296 /\ code <= 57343
             THEN [kind |-> "escape", str |-> str, end |-> i]
             ELSE Denotes(text, i + 6, Append(str, code))

\* C13: a backslash followed by a character that is no escape, a \u not
\* followed by four hexadecimal digits, and a \uXXXX naming a surrogate each
\* make parse return the "Invalid escape sequence" error.
C13_InvalidEscapeIsError ==
    (pc = "parsed" /\ Denotes(src.buf, 2, <<>>).kind = "escape")
        => (~out.ok /\ out.err = ERR_INVALID_ESCAPE /\ out.node = NoNode)

\* C13 witness: a literal holding \ud800 was refused
C13_Witness ==
    /\ pc = "parsed"
    /\ Len(src.buf) >= 7
    /\ SubSeq(src.buf, 1, 7) = <<Ch.quote>> \o UEsc(<<Ch.d, 56, Ch.d0, Ch.d0>>)
    /\ ~out.ok
    /\ out.err = ERR_INVALID_ESCAPE

\* C14: a string literal whose escapes are all valid parses to the Str of
\* its characters, each escape decoded to the one character it stands for
\* and every other character kept, with the cursor after the closing quote.
C14_EscapesDecoded ==
    pc = "parsed" =>
        LET d == Denotes(src.buf, 2, <<>>)
        IN  d.kind = "ok" =>
               (out.ok /\ out.node = StrNode(d.str) /\ src.pos = d.end)

\* C14 witness: the literal "€\b"1 was parsed to the two characters
\* U+20AC and U+0008, the cursor left on the 1
C14_Witness ==
    /\ pc = "parsed"
    /\ src.buf = <<Ch.quote>> \o UEsc(<<Ch.d2, Ch.d0, 65, 67>>) \o <<Ch.bslash, Ch.b>>
                     \o <<Ch.quote, Ch.d1>>
    /\ out.ok
    /\ out.node = StrNode(<<8364, 8>>)
    /\ current(src) = Ch.d1


(***************************************************************************)
(* parse called on a text holding one empty object or array, alone or      *)
(* nested, and the parsed Node then written by one of the serializers.     *)
(***************************************************************************)
EmptyMaxWraps == 2

\* the empty container with whitespace inside
EmptyTexts ==
    { <<Ch.lbrack>> \o ws \o <<Ch.rbrack>> : ws \in WsRuns }
    \cup { <<Ch.lbrace>> \o ws \o <<Ch.rbrace>> : ws \in WsRuns }

\* a text made the only element of an array, the last element of an array,
\* or the value of an object's member
WrapText(kind, text) ==
    IF kind = "only" THEN <<Ch.lbrack>> \o text \o <<Ch.rbrack>>
    ELSE IF kind = "last" THEN <<Ch.lbrack, Ch.d1, Ch.comma>> \o text \o <<Ch.rbrack>>
    ELSE <<Ch.lbrace, Ch.quote, Ch.a, Ch.quote, Ch.colon>> \o text \o <<Ch.rbrace>>

RECURSIVE WrapTexts(_, _)
WrapTexts(kinds, text) ==
    IF kinds = <<>> THEN text
    ELSE WrapTexts(Tail(kinds), WrapText(kinds[1], text))

EmptyInit ==
    /\ pc = "parse"
    /\ node = NoNode
    /\ \E e \in EmptyTexts, lead \in WsRuns, trail \in WsRuns :
       \E kinds \in UNION { [1..k -> {"only", "last", "value"}] : k \in 0..EmptyMaxWraps } :
          src = Source(lead \o WrapTexts(kinds, e) \o trail)
    /\ dest = <<>>
    /\ prev = <<>>
    /\ out = PErr("", Source(<<>>))

\* the parsed Node handed to the default serializer
WriteJson ==
    /\ pc = "parsed"
    /\ out.ok
    /\ node' = out.node
    /\ dest' = stringify(out.node, dest)
    /\ pc' = "json"
    /\ UNCHANGED <<src, out, prev>>

\* the parsed Node handed to the bencode serializer
WriteBencode ==
    /\ pc = "parsed"
    /\ out.ok
    /\ node' = out.node
    /\ dest' = to_bencode(out.node, dest)
    /\ pc' = "bencode"
    /\ UNCHANGED <<src, out, prev>>

\* the parsed Node handed to the XML serializer
WriteXml ==
    /\ pc = "parsed"
    /\ out.ok
    /\ node' = out.node
    /\ dest' = to_xml(out.node, dest)
    /\ pc' = "xml"
    /\ UNCHANGED <<src, out, prev>>

\* the parsed Node handed to the YAML serializer
WriteYaml ==
    /\ pc = "parsed"
    /\ out.ok
    /\ node' = out.node
    /\ dest' = to_yaml(out.node, dest)
    /\ pc' = "yaml"
    /\ UNCHANGED <<src, out, prev>>

EmptyNext == Parse \/ WriteJson \/ WriteBencode \/ WriteXml \/ WriteYaml

SpecEmpty == EmptyInit /\ [][EmptyNext]_vars

\* a text without the whitespace at its two ends
RECURSIVE Trimmed(_)
Trimmed(text) ==
    IF text = <<>> THEN text
    ELSE IF text[1] \in {Ch.sp, Ch.lf, Ch.tab, Ch.cr} THEN Trimmed(Tail(text))
    ELSE IF text[Len(text)] \in {Ch.sp, Ch.lf, Ch.tab, Ch.cr}
         THEN Trimmed(SubSeq(text, 1, Len(text) - 1))
    ELSE text

\* the tree a trimmed text of EmptyInit denotes
RECURSIVE Denoted(_)
Denoted(text) ==
    LET inner(from) == SubSeq(text, from, Len(text) - 1)
    IN  IF text[1] = Ch.lbrack /\ text[2] = Ch.d1
        THEN [type |-> "Array", items |-> <<IntegerNode(1), Denoted(inner(4))>>]
        ELSE IF text[1] = Ch.lbrack /\ text[2] \in {Ch.lbrack, Ch.lbrace}
        THEN [type |-> "Array", items |-> <<Denoted(inner(2))>>]
        ELSE IF text[1] = Ch.lbrace /\ text[2] = Ch.quote
        THEN [type |-> "Object", entries |-> <<[k |-> <<Ch.a>>, v |-> Denoted(inner(6))]>>]
        ELSE IF text[1] = Ch.lbrack THEN [type |-> "Array", items |-> <<>>]
        ELSE [type |-> "Object", entries |-> <<>>]

\* the empty container of a tree of EmptyInit and the tree with an integer
\* in its place
RECURSIVE Innermost(_), Plugged(_, _)
Innermost(n) ==
    IF n.type = "Array" /\ n.items # <<>> THEN Innermost(n.items[Len(n.items)])
    ELSE IF n.type = "Object" /\ n.entries # <<>> THEN Innermost(n.entries[1].v)
    ELSE n

Plugged(n, x) ==
    IF n.type = "Array" /\ n.items # <<>>
    THEN [n EXCEPT !.items[Len(n.items)] = Plugged(n.items[Len(n.items)], x)]
    ELSE IF n.type = "Object" /\ n.entries # <<>>
    THEN [n EXCEPT !.entries[1].v = Plugged(n.entries[1].v, x)]
    ELSE x

\* text a with one occurrence of old exchanged for new gives b
Exchanged(a, old, new, b) ==
    \E k \in 0..(Len(a) - Len(old)) :
        /\ SubSeq(a, k + 1, k + Len(old)) = old
        /\ b = SubSeq(a, 1, k) \o new \o SubSeq(a, k + Len(old) + 1, Len(a))

\* the empty forms of the four formats
EmptyForm(format, type) ==
    IF format = "json" \/ format = "yaml"
    THEN (IF type = "Object" THEN <<Ch.lbrace, Ch.rbrace>> ELSE <<Ch.lbrack, Ch.rbrack>>)
    ELSE IF format = "bencode"
    THEN (IF type = "Object" THEN <<Ch.d, Ch.e>> ELSE <<Ch.l, Ch.e>>)
    ELSE (IF type = "Object" THEN Xml.object \o Xml.object_end ELSE Xml.array \o Xml.array_end)

\* what each format writes for the tree with the integer 7 in the place of
\* the empty container, and the text of that 7
PluggedText(format, n) ==
    LET p == Plugged(n, IntegerNode(7))
    IN  IF format = "json" THEN stringify(p, <<>>)
        ELSE IF format = "bencode" THEN to_bencode(p, <<>>)
        ELSE IF format = "xml" THEN to_xml(p, <<>>)
        ELSE to_yaml(p, <<>>)

SevenForm(format) ==
    IF format = "json" \/ format = "yaml" THEN <<55>>
    ELSE IF format = "bencode" THEN <<Ch.i, 55, Ch.e>>
    ELSE Xml.number \o <<55>> \o Xml.number_end

\* C15: {} and [] with whitespace around and inside parse to the empty
\* Object and the empty Array, alone or nested, and each serializer writes
\* the empty container as its empty form ({} and [], de and le,
\* <object></object> and <array></array>) in the place of the value.
C15_EmptyContainers ==
    /\ pc # "parse" => (out.ok /\ NodeEq(out.node, Denoted(Trimmed(src.buf))))
    /\ pc \in {"json", "bencode", "xml", "yaml"} =>
          /\ Innermost(node) \in {ArrayNode(<<>>), ObjectNode(<<>>)}
          /\ Exchanged(PluggedText(pc, node), SevenForm(pc),
                       EmptyForm(pc, Innermost(node).type), dest)

\* C15 witness: {"a":[ ]} between spaces was parsed and written as YAML, the
\* empty array as [] after the key
C15_Witness ==
    /\ pc = "yaml"
    /\ src.buf = <<Ch.sp, Ch.lbrace, Ch.quote, Ch.a, Ch.quote, Ch.colon, Ch.lbrack, Ch.sp,
                   Ch.rbrack, Ch.rbrace, Ch.sp>>
    /\ dest = <<Ch.lf, Ch.a, Ch.colon, Ch.sp, Ch.lbrack, Ch.rbrack, Ch.lf>>


(***************************************************************************)
(* The default stringify called on a Str, or on an Object or Array holding *)
(* one, whose text mixes plain characters with those that are escaped.     *)
(***************************************************************************)
EscapeMaxLen == 2

EscapeChars ==
    { Ch.quote, Ch.bslash, Ch.lf, Ch.cr, Ch.tab, Ch.bs, Ch.ff, 0, 31, 127, 133, 159,
      Ch.a, Ch.slash, 160, Ch.Gcedilla }

EscapeTexts == UNION { [1..k -> EscapeChars] : k \in 0..EscapeMaxLen }

EscapeInit ==
    /\ pc = "stringify"
    /\ \E s \in EscapeTexts :
          node \in { StrNode(s),
                     ArrayNode(<<StrNode(s)>>),
                     ObjectNode(<<Entry(s, NoneNode)>>),
                     ObjectNode(<<Entry(s, StrNode(s))>>) }
    /\ src = Source(<<>>)
    /\ dest \in InitialDests
    /\ prev = dest
    /\ out = PErr("", Source(<<>>))

EscapeNext == Stringify

SpecEscape == EscapeInit /\ [][EscapeNext]_vars

\* the sixteen lowercase hexadecimal digits
LowerHex == <<48, 49, 50, 51, 52, 53, 54, 55, 56, 57, 97, 98, 99, 100, 101, 102>>

\* how one character of a Str or key is to be written
WrittenChar(c) ==
    IF c = 34 THEN <<92, 34>>
    ELSE IF c = 92 THEN <<92, 92>>
    ELSE IF c = 10 THEN <<92, 110>>
    ELSE IF c = 13 THEN <<92, 114>>
    ELSE IF c = 9 THEN <<92, 116>>
    ELSE IF c <= 31 \/ (c >= 127 /\ c <= 159)
         THEN <<92, 117, LowerHex[((c \div 4096) % 16) + 1],
                LowerHex[((c \div 256) % 16) + 1], LowerHex[((c \div 16) % 16) + 1],
                LowerHex[(c % 16) + 1]>>
    ELSE <<c>>

\* a Str or key between double quotes
RECURSIVE Quoted(_, _)
Quoted(s, i) ==
    IF i = 0 THEN <<34>> \o Quoted(s, 1)
    ELSE IF i > Len(s) THEN <<34>>
    ELSE WrittenChar(s[i]) \o Quoted(s, i + 1)

\* the text of a node of EscapeInit
RECURSIVE EscapedText(_)
EscapedText(n) ==
    IF n.type = "Str" THEN Quoted(n.s, 0)
    ELSE IF n.type = "None" THEN T_null
    ELSE IF n.type = "Array" THEN <<91>> \o EscapedText(n.items[1]) \o <<93>>
    ELSE <<123>> \o Quoted(n.entries[1].k, 0) \o <<58>> \o EscapedText(n.entries[1].v)
             \o <<125>>

\* C16: the default stringify writes a Str and an Object key between double
\* quotes, with " as \", \ as \\, line feed as \n, carriage return as \r,
\* tab as \t, any other control character as \u and its four lowercase
\* hexadecimal digits, and every other character as itself.
C16_DefaultEscaping ==
    pc = "stringified" => dest = prev \o as_bytes(EscapedText(node))

\* C16 witness: the key made of a double quote and U+0085 was written as
\* {"\"\u0085":null}
C16_Witness ==
    /\ pc = "stringified"
    /\ node = ObjectNode(<<Entry(<<Ch.quote, 133>>, NoneNode)>>)
    /\ dest = <<123, 34, 92, 34, 92, 117, 48, 48, 56, 53, 34, 58>> \o T_null \o <<125>>


(***************************************************************************)
(* stringify_toml called on objects whose members are plain values, inline *)
(* arrays, tables and arrays of tables, nested to a bounded depth.         *)
(***************************************************************************)
OrderMaxDepth == 2

OrderPlain == { IntegerNode(1), ArrayNode(<<IntegerNode(1)>>) }

RECURSIVE OrderObjects(_), OrderValues(_)

\* the objects over the keys a and b, in either iteration order, nesting
\* tables to depth d at most
OrderObjects(d) ==
    LET V == OrderValues(d - 1)
    IN  { ObjectNode(<<>>) }
        \cup { ObjectNode(<<Entry(k, v)>>) : k \in {KeyA, KeyB}, v \in V }
        \cup { ObjectNode(<<Entry(KeyA, v), Entry(KeyB, w)>>) : v \in V, w \in V }
        \cup { ObjectNode(<<Entry(KeyB, v), Entry(KeyA, w)>>) : v \in V, w \in V }

\* a plain value, a table, or an array of one table or of the same table twice
OrderValues(d) ==
    IF d = 0 THEN OrderPlain
    ELSE OrderPlain
         \cup OrderObjects(d)
         \cup { ArrayNode(<<o>>) : o \in OrderObjects(d) }
         \cup { ArrayNode(<<o, o>>) : o \in OrderObjects(d) }

OrderInit ==
    /\ pc = "toml"
    /\ node \in OrderObjects(OrderMaxDepth)
                  \cup { ObjectNode(<<Entry(KeyA, v)>>) : v \in OrderValues(OrderMaxDepth) }
    /\ src = Source(<<>>)
    /\ dest = <<>>
    /\ prev = dest
    /\ out = [st |-> "none", err |-> ""]

OrderNext == StringifyToml

SpecOrder == OrderInit /\ [][OrderNext]_vars

\* the lines of a text, each ended by a line feed
RECURSIVE LinesOf(_, _)
LinesOf(text, line) ==
    IF text = <<>> THEN (IF line = <<>> THEN <<>> ELSE <<line>>)
    ELSE IF text[1] = Ch.lf THEN <<line>> \o LinesOf(Tail(text), <<>>)
    ELSE LinesOf(Tail(text), Append(line, text[1]))

\* a header line without its brackets
RECURSIVE Unbracketed(_)
Unbracketed(line) ==
    IF line # <<>> /\ line[1] = Ch.lbrack THEN Unbracketed(Tail(line))
    ELSE IF line # <<>> /\ line[Len(line)] = Ch.rbrack
         THEN Unbracketed(SubSeq(line, 1, Len(line) - 1))
    ELSE line

\* the characters of a line before its first space
RECURSIVE KeyOfLine(_)
KeyOfLine(line) ==
    IF line = <<>> \/ line[1] = Ch.sp THEN <<>> ELSE <<line[1]>> \o KeyOfLine(Tail(line))

\* the key/value lines of a TOML text in the order written, each with the
\* path of the header it stands under (empty before the first header)
RECURSIVE Outline(_, _, _)
Outline(ls, i, path) ==
    IF i > Len(ls) THEN <<>>
    ELSE IF ls[i] # <<>> /\ ls[i][1] = Ch.lbrack
         THEN Outline(ls, i + 1, Unbracketed(ls[i]))
    ELSE <<[path |-> path, key |-> KeyOfLine(ls[i])]>> \o Outline(ls, i + 1, path)

Dotted(path, key) == IF path = <<>> THEN key ELSE path \o <<Ch.dot>> \o key

IsTable(v) == v.type = "Object"

IsArrayOfTables(v) ==
    /\ v.type = "Array"
    /\ v.items # <<>>
    /\ \A j \in 1..Len(v.items) : v.items[j].type = "Object"

\* the keys of OrderInit in ascending order
OrderKeys == <<KeyA, KeyB>>

\* the value of a key in an object's entries
ValueOf(entries, key) ==
    LET j == CHOOSE j \in 1..Len(entries) : entries[j].k = key IN entries[j].v

HasKey(entries, key) == \E j \in 1..Len(entries) : entries[j].k = key

\* the key/value lines of an object at a path in the stated order: its plain
\* members by ascending key, then its tables by ascending key, then its
\* arrays of tables by ascending key, element by element
RECURSIVE OrderedLines(_, _), PlainLines(_, _, _), TableLines(_, _, _),
          ArrayTableLines(_, _, _), ElementLines(_, _, _)

PlainLines(entries, path, i) ==
    IF i > Len(OrderKeys) THEN <<>>
    ELSE LET k == OrderKeys[i]
         IN  (IF HasKey(entries, k) /\ ~IsTable(ValueOf(entries, k))
                    /\ ~IsArrayOfTables(ValueOf(entries, k))
              THEN <<[path |-> path, key |-> k]>> ELSE <<>>)
             \o PlainLines(entries, path, i + 1)

TableLines(entries, path, i) ==
    IF i > Len(OrderKeys) THEN <<>>
    ELSE LET k == OrderKeys[i]
         IN  (IF HasKey(entries, k) /\ IsTable(ValueOf(entries, k))
              THEN OrderedLines(ValueOf(entries, k).entries, Dotted(path, k)) ELSE <<>>)
             \o TableLines(entries, path, i + 1)

ElementLines(items, path, j) ==
    IF j > Len(items) THEN <<>>
    ELSE OrderedLines(items[j].entries, path) \o ElementLines(items, path, j + 1)

ArrayTableLines(entries, path, i) ==
    IF i > Len(OrderKeys) THEN <<>>
    ELSE LET k == OrderKeys[i]
         IN  (IF HasKey(entries, k) /\ IsArrayOfTables(ValueOf(entries, k))
              THEN ElementLines(ValueOf(entries, k).items, Dotted(path, k), 1) ELSE <<>>)
             \o ArrayTableLines(entries, path, i + 1)

OrderedLines(entries, path) ==
    PlainLines(entries, path, 1) \o TableLines(entries, path, 1)
        \o ArrayTableLines(entries, path, 1)

\* the members of a sequence that are in a set, in their order
Restricted(seq, set) == SelectSeq(seq, LAMBDA e : e \in set)

Members(seq) == { seq[j] : j \in 1..Len(seq) }

\* C17: for every object stringify_toml writes, its plain key/value lines
\* come first in ascending key order, then its child tables in ascending key
\* order, then its arrays of tables in ascending key order: the lines that
\* are written stand in that order.
C17_TomlGroupOrder ==
    (pc = "toml_done" /\ out.st = "ok") =>
        LET written == Outline(LinesOf(dest, <<>>), 1, <<>>)
            stated == OrderedLines(node.entries, <<>>)
        IN  Restricted(written, Members(stated)) = Restricted(stated, Members(written))


(***************************************************************************)
(* parse called on an opening bracket or brace followed by a run of        *)
(* values or members, commas, closing characters and spaces.               *)
(***************************************************************************)
SeparatorMaxTokens == 5

\* "a":1
MemberA == <<Ch.quote, Ch.a, Ch.quote, Ch.colon, Ch.d1>>

ArrayTokens == { <<Ch.d1>>, <<Ch.d2>>, <<Ch.comma>>, <<Ch.rbrack>>, <<Ch.sp>> }

\* a member, a comma, a closing brace, a space, and the two tails b":2 and
\* ":2 of a member
ObjectTokens ==
    { MemberA, <<Ch.comma>>, <<Ch.rbrace>>, <<Ch.sp>>,
      <<Ch.b, Ch.quote, Ch.colon, Ch.d2>>, <<Ch.quote, Ch.colon, Ch.d2>> }

RECURSIVE RunsOver(_, _)
RunsOver(tokens, k) ==
    IF k = 0 THEN { <<>> }
    ELSE { <<>> } \cup { x \o r : x \in tokens, r \in RunsOver(tokens, k - 1) }

SeparatorInit ==
    /\ pc = "parse"
    /\ node = NoNode
    /\ \/ \E r \in RunsOver(ArrayTokens, SeparatorMaxTokens) :
             src = Source(<<Ch.lbrack>> \o r)
       \/ \E r \in RunsOver(ObjectTokens, SeparatorMaxTokens) :
             src = Source(<<Ch.lbrace>> \o r)
    /\ dest = <<>>
    /\ prev = <<>>
    /\ out = PErr("", Source(<<>>))

SeparatorNext == Parse

SpecSeparators == SeparatorInit /\ [][SeparatorNext]_vars

\* the character at a position of a text, None past its end
At(text, i) == IF i >= 1 /\ i <= Len(text) THEN text[i] ELSE None

\* the first position from i on that holds no space
RECURSIVE PastSpaces(_, _)
PastSpaces(text, i) == IF At(text, i) = Ch.sp THEN PastSpaces(text, i + 1) ELSE i

\* the first position from i on that holds no digit
RECURSIVE PastDigits(_, _)
PastDigits(text, i) ==
    IF At(text, i) # None /\ At(text, i) \in 48..57 THEN PastDigits(text, i + 1) ELSE i

\* the position of the first double quote from i on, 0 when there is none
RECURSIVE QuoteFrom(_, _)
QuoteFrom(text, i) ==
    IF i > Len(text) THEN 0
    ELSE IF text[i] = Ch.quote THEN i
    ELSE QuoteFrom(text, i + 1)

\* the position after the closing bracket of an array of numbers, read from
\* position i where an element (or, when first, the closing bracket) is due;
\* 0 when an element is not followed by a comma or the closing bracket, or a
\* comma not by an element
RECURSIVE ArrayFrom(_, _, _)
ArrayFrom(text, i, first) ==
    LET j == PastSpaces(text, i)
        k == PastSpaces(text, PastDigits(text, j))
    IN  IF first /\ At(text, j) = Ch.rbrack THEN j + 1
        ELSE IF PastDigits(text, j) = j THEN 0
        ELSE IF At(text, k) = Ch.comma THEN ArrayFrom(text, k + 1, FALSE)
        ELSE IF At(text, k) = Ch.rbrack THEN k + 1
        ELSE 0

\* the same for an object whose members are a quoted key, a colon and a
\* number
RECURSIVE ObjectFrom(_, _, _)
ObjectFrom(text, i, first) ==
    LET j == PastSpaces(text, i)
        q == QuoteFrom(text, j + 1)
        c == PastSpaces(text, q + 1)
        v == PastSpaces(text, c + 1)
        k == PastSpaces(text, PastDigits(text, v))
    IN  IF first /\ At(text, j) = Ch.rbrace THEN j + 1
        ELSE IF At(text, j) # Ch.quote \/ q = 0 THEN 0
        ELSE IF At(text, c) # Ch.colon \/ PastDigits(text, v) = v THEN 0
        ELSE IF At(text, k) = Ch.comma THEN ObjectFrom(text, k + 1, FALSE)
        ELSE IF At(text, k) = Ch.rbrace THEN k + 1
        ELSE 0

WellSeparated(text) ==
    IF text[1] = Ch.lbrack THEN ArrayFrom(text, 2, TRUE) ELSE ObjectFrom(text, 2, TRUE)

\* C18: parse returns a value only for an array in which every element is
\* followed by a comma or the closing bracket and every comma by an element,
\* and for an object in which every member is followed by a comma or the
\* closing brace and every comma by a member; any other text, such as one
\* with a trailing comma, is an error.
C18_SeparatorsRequired ==
    (pc = "parsed" /\ out.ok) => WellSeparated(src.buf) = src.pos

\* the header lines of a TOML text in the order written: the path between
\* the brackets and whether the brackets are doubled
RECURSIVE HeaderLines(_, _)
HeaderLines(ls, i) ==
    IF i > Len(ls) THEN <<>>
    ELSE IF ls[i] # <<>> /\ ls[i][1] = Ch.lbrack
         THEN <<[path |-> Unbracketed(ls[i]),
                 double |-> (Len(ls[i]) >= 2 /\ ls[i][2] = Ch.lbrack)]>>
              \o HeaderLines(ls, i + 1)
    ELSE HeaderLines(ls, i + 1)

\* the keys of a dotted path
RECURSIVE KeysOfPath(_, _)
KeysOfPath(path, key) ==
    IF path = <<>> THEN (IF key = <<>> THEN <<>> ELSE <<key>>)
    ELSE IF path[1] = Ch.dot THEN <<key>> \o KeysOfPath(Tail(path), <<>>)
    ELSE KeysOfPath(Tail(path), Append(key, path[1]))

\* the objects found under a value by following keys, stepping through the
\* elements of arrays of tables: each with whether it is such an element
RECURSIVE Located(_, _, _), LocatedItems(_, _, _)
Located(v, keys, element) ==
    IF v.type = "Object" THEN
        IF keys = <<>> THEN <<[obj |-> v, element |-> element]>>
        ELSE IF HasKey(v.entries, keys[1])
             THEN Located(ValueOf(v.entries, keys[1]), Tail(keys), FALSE)
        ELSE <<>>
    ELSE IF IsArrayOfTables(v) THEN LocatedItems(v.items, keys, 1)
    ELSE <<>>

LocatedItems(items, keys, j) ==
    IF j > Len(items) THEN <<>>
    ELSE Located(items[j], keys, TRUE) \o LocatedItems(items, keys, j + 1)

\* the dotted paths of all members under a value
RECURSIVE TreePaths(_, _)
TreePaths(v, path) ==
    IF v.type = "Object"
    THEN UNION { {Dotted(path, v.entries[j].k)}
                     \cup TreePaths(v.entries[j].v, Dotted(path, v.entries[j].k)) :
                 j \in 1..Len(v.entries) }
    ELSE IF v.type = "Array"
    THEN UNION { TreePaths(v.items[j], path) : j \in 1..Len(v.items) }
    ELSE {}

HoldsOnlyTables(obj) ==
    \A j \in 1..Len(obj.entries) : obj.entries[j].v.type = "Object"

\* C19: stringify_toml writes a header line, [path] or [[path]], only for a
\* table that is not the root and not empty, and no [path] header for a
\* table whose entries are all tables: at each path there are no more
\* headers than non-empty tables, and no more [path] headers than non-empty
\* tables holding something other than tables.
C19_HeadersOnlyForNonEmptyTables ==
    pc = "toml_done" =>
        LET headers == HeaderLines(LinesOf(dest, <<>>), 1)
        IN  \A h \in Members(headers) :
               LET found == Located(node, KeysOfPath(h.path, <<>>), FALSE)
                   filled == SelectSeq(found, LAMBDA f : f.obj.entries # <<>>)
                   plain == SelectSeq(filled, LAMBDA f : ~HoldsOnlyTables(f.obj))
                   here == SelectSeq(headers, LAMBDA g : g.path = h.path)
                   single == SelectSeq(here, LAMBDA g : ~g.double)
               IN  /\ h.path # <<>>
                   /\ Len(here) <= Len(filled)
                   /\ Len(single) <= Len(plain)

\* C20: for every array whose elements are all objects, at any depth,
\* stringify_toml writes one [[dotted.path]] header per element: at each
\* path there are as many [[path]] headers as elements of such arrays.
C20_ArrayOfTablesHeaderPerElement ==
    (pc = "toml_done" /\ out.st = "ok") =>
        LET headers == HeaderLines(LinesOf(dest, <<>>), 1)
        IN  \A p \in TreePaths(node, <<>>) :
               LET found == Located(node, KeysOfPath(p, <<>>), FALSE)
                   elements == SelectSeq(found, LAMBDA f : f.element)
                   double == SelectSeq(headers, LAMBDA g : g.path = p /\ g.double)
               IN  Len(double) = Len(elements)


\* the object {a: [{a: [{a: 1}]}]}: an array of one table inside the only
\* element of an array of tables
NestedArrayTables ==
    ObjectNode(<<Entry(KeyA, ArrayNode(<<
        ObjectNode(<<Entry(KeyA, ArrayNode(<<
            ObjectNode(<<Entry(KeyA, IntegerNode(1))>>)>>))>>)>>))>>)

\* C21: an array of objects inside an element of an array of tables is not
\* written as an inline key = [...] line but only as tables under the dotted
\* prefix: every key/value line written names a member that is not an array
\* of tables, and {a: [{a: [{a: 1}]}]} gives exactly [[a]], [a.a], a = 1.
C21_NoInlineLineForNestedArrayOfTables ==
    (pc = "toml_done" /\ out.st = "ok") =>
        /\ \A e \in Members(Outline(LinesOf(dest, <<>>), 1, <<>>)) :
              LET found == Located(node, KeysOfPath(e.path, <<>>), FALSE)
              IN  \E j \in 1..Len(found) :
                     /\ HasKey(found[j].obj.entries, e.key)
                     /\ ~IsArrayOfTables(ValueOf(found[j].obj.entries, e.key))
        /\ node = NestedArrayTables =>
              dest = <<Ch.lbrack, Ch.lbrack, Ch.a, Ch.rbrack, Ch.rbrack, Ch.lf,
                       Ch.lbrack, Ch.a, Ch.dot, Ch.a, Ch.rbrack, Ch.lf,
                       Ch.a, Ch.sp, Ch.eq, Ch.sp, Ch.d1, Ch.lf>>


(***************************************************************************)
(* The bencode serializer called on a Str, alone, in an Array or as key    *)
(* and value of an Object, over characters of one to four UTF-8 bytes.     *)
(***************************************************************************)
BencodeStrMaxLen == 3

BencodeStrChars == { Ch.a, Ch.colon, Ch.d1, Ch.quote, Ch.bslash, Ch.lf, 233, 8364, 128512 }

BencodeStrTexts == UNION { [1..k -> BencodeStrChars] : k \in 0..BencodeStrMaxLen }

BencodeStrInit ==
    /\ pc = "bencode"
    /\ \E s \in BencodeStrTexts :
          node \in { StrNode(s), ArrayNode(<<StrNode(s)>>), ObjectNode(<<Entry(s, StrNode(s))>>) }
    /\ src = Source(<<>>)
    /\ dest \in InitialDests
    /\ prev = dest
    /\ out = [st |-> "none", node |-> NoNode]

BencodeStrNext == ToBencode

SpecBencodeStr == BencodeStrInit /\ [][BencodeStrNext]_vars

\* the position of the first colon of bytes from i on, 0 when there is none
RECURSIVE ColonFrom(_, _)
ColonFrom(bytes, i) ==
    IF i > Len(bytes) THEN 0
    ELSE IF bytes[i] = Ch.colon THEN i
    ELSE ColonFrom(bytes, i + 1)

\* the number written in decimal by digits, -1 when they are no such number
RECURSIVE DecimalOf(_, _)
DecimalOf(digits, acc) ==
    IF digits = <<>> THEN acc
    ELSE IF digits[1] \notin 48..57 THEN 0 - 1
    ELSE DecimalOf(Tail(digits), 10 * acc + (digits[1] - 48))

\* the position after the strings texts read one after the other from
\* position i of bytes, each as a decimal count, a colon and exactly that
\* many bytes, which are the UTF-8 bytes of the text; 0 when they are not there
RECURSIVE ReadsStrings(_, _, _)
ReadsStrings(bytes, i, texts) ==
    IF texts = <<>> THEN i
    ELSE LET c == ColonFrom(bytes, i)
             digits == SubSeq(bytes, i, c - 1)
             count == DecimalOf(digits, 0)
             body == as_bytes(texts[1])
         IN  IF c = 0 \/ digits = <<>> \/ (Len(digits) > 1 /\ digits[1] = 48) THEN 0
             ELSE IF count # Len(body) \/ c + count > Len(bytes) THEN 0
             ELSE IF SubSeq(bytes, c + 1, c + count) # body THEN 0
             ELSE ReadsStrings(bytes, c + count + 1, Tail(texts))

\* C22: the bencode serializer writes a Str and an Object key as the decimal
\* number of bytes of its UTF-8 encoding, a colon and those bytes unescaped,
\* so the count always equals the number of content bytes that follow.
C22_BencodeLengthPrefix ==
    pc = "encoded" =>
        LET w == SubSeq(dest, Len(prev) + 1, Len(dest))
        IN  IF node.type = "Str" THEN ReadsStrings(w, 1, <<node.s>>) = Len(w) + 1
            ELSE IF node.type = "Array"
            THEN /\ w[1] = Ch.l
                 /\ ReadsStrings(w, 2, <<node.items[1].s>>) = Len(w)
                 /\ w[Len(w)] = Ch.e
            ELSE /\ w[1] = Ch.d
                 /\ ReadsStrings(w, 2, <<node.entries[1].k, node.entries[1].v.s>>) = Len(w)
                 /\ w[Len(w)] = Ch.e

\* C22 witness: the Str of three characters U+1F600 was written as 12: and
\* its twelve bytes, and the empty key and value as d0:0:e
C22_Witness ==
    /\ pc = "encoded"
    /\ prev = <<>>
    /\ \/ /\ node = StrNode(<<128512, 128512, 128512>>)
          /\ SubSeq(dest, 1, 3) = <<Ch.d1, Ch.d2, Ch.colon>>
          /\ Len(dest) = 15
       \/ /\ node = ObjectNode(<<Entry(<<>>, StrNode(<<>>))>>)
          /\ dest = <<Ch.d, Ch.d0, Ch.colon, Ch.d0, Ch.colon, Ch.e>>


(***************************************************************************)
(* The XML serializer called on a Str, alone, in an Array or as key and    *)
(* value of an Object, over the five escaped characters and others.        *)
(***************************************************************************)
XmlMaxLen == 2

\* < > & " ' and a ; / U+00E9 and a space
XmlChars == { 60, 62, 38, 34, 39, Ch.a, 59, Ch.slash, 233, Ch.sp }

XmlTexts == UNION { [1..k -> XmlChars] : k \in 0..XmlMaxLen }

XmlInit ==
    /\ pc = "to_xml"
    /\ \E s \in XmlTexts :
          node \in { StrNode(s), ArrayNode(<<StrNode(s)>>) }
                      \cup { ObjectNode(<<Entry(s, StrNode(<<c>>))>>) : c \in XmlChars }
    /\ src = Source(<<>>)
    /\ dest \in InitialDests
    /\ prev = dest
    /\ out = [st |-> "none", err |-> ""]

\* stringify(node, destination) of stringify/xml.rs
ToXml ==
    /\ pc = "to_xml"
    /\ dest' = to_xml(node, dest)
    /\ out' = [st |-> "ok", err |-> ""]
    /\ pc' = "xml_done"
    /\ UNCHANGED <<node, src, prev>>

XmlNext == ToXml

SpecXml == XmlInit /\ [][XmlNext]_vars

\* the entity reference for each of the five characters
Entities ==
    (60 :> <<38, 108, 116, 59>>) @@ (62 :> <<38, 103, 116, 59>>)
    @@ (38 :> <<38, 97, 109, 112, 59>>) @@ (34 :> <<38, 113, 117, 111, 116, 59>>)
    @@ (39 :> <<38, 97, 112, 111, 115, 59>>)

\* a text with each of the five characters replaced by its entity reference
RECURSIVE WithEntities(_)
WithEntities(s) ==
    IF s = <<>> THEN <<>>
    ELSE (IF s[1] \in DOMAIN Entities THEN Entities[s[1]] ELSE <<s[1]>>)
         \o WithEntities(Tail(s))

\* the XML text of a node of XmlInit
XmlStringText(s) == Xml.string \o WithEntities(s) \o Xml.string_end

XmlText(n) ==
    IF n.type = "Str" THEN XmlStringText(n.s)
    ELSE IF n.type = "Array"
    THEN Xml.array \o Xml.item \o XmlStringText(n.items[1].s) \o Xml.item_end \o Xml.array_end
    ELSE Xml.object \o Xml.entry \o Xml.key \o WithEntities(n.entries[1].k) \o Xml.key_end
             \o Xml.value \o XmlStringText(n.entries[1].v.s) \o Xml.value_end
             \o Xml.entry_end \o Xml.object_end

\* C23: the XML serializer writes every Str value and every Object key with
\* < > & " ' replaced by &lt; &gt; &amp; &quot; &apos; and every other
\* character unchanged.
C23_XmlEntityEscaping ==
    pc = "xml_done" => dest = prev \o as_bytes(XmlText(node))

\* C23 witness: the key <' with the value & was written with all three
\* characters as entity references
C23_Witness ==
    /\ pc = "xml_done"
    /\ prev = <<>>
    /\ node = ObjectNode(<<Entry(<<60, 39>>, StrNode(<<38>>))>>)
    /\ dest = Xml.object \o Xml.entry \o Xml.key \o Xml.lt \o Xml.apos \o Xml.key_end
                  \o Xml.value \o Xml.string \o Xml.amp \o Xml.string_end
                  \o Xml.value_end \o Xml.entry_end \o Xml.object_end


(***************************************************************************)
(* print called once on a Node with an indent and a current indent.        *)
(***************************************************************************)
PrettyMaxNodes == 4

PrettyLeaves == { IntegerNode(1), StrNode(<<Ch.a>>) }

PrettyIndents == { 0, 2 }

PrettyCurrentIndents == { 0, 1 }

PrettyInit ==
    /\ pc = "print"
    /\ node \in TreesUpTo(PrettyLeaves, PrettyMaxNodes) \cup { NoneNode, BooleanNode(FALSE) }
    /\ src = Source(<<>>)
    /\ dest \in InitialDests
    /\ prev = dest
    /\ out = [st |-> "none", indent |-> 0, current_indent |-> 0]

\* print(node, destination, indent, current_indent); out keeps the two
\* indents the call was made with
PrettyPrint ==
    /\ pc = "print"
    /\ \E indent \in PrettyIndents, current_indent \in PrettyCurrentIndents :
          /\ dest' = print(node, dest, indent, current_indent)
          /\ out' = [st |-> "ok", indent |-> indent, current_indent |-> current_indent]
    /\ pc' = "printed"
    /\ UNCHANGED <<node, src, prev>>

PrettyNext == PrettyPrint

SpecPrint == PrettyInit /\ [][PrettyNext]_vars

Spaces(k) == [j \in 1..k |-> 32]

\* the stated layout of a node: a collection as its opening bracket and a
\* line feed, each child on a line of its own indented by current + indent
\* with a comma after all but the last, and the closing bracket indented by
\* current; a scalar of PrettyInit as its JSON text
RECURSIVE Layout(_, _, _), LayoutChildren(_, _, _, _, _)
LayoutChildren(n, count, j, indent, base) ==
    IF j > count THEN <<>>
    ELSE Spaces(base + indent)
         \o (IF n.type = "Object"
             THEN <<34>> \o n.entries[j].k \o <<34, 58, 32>>
                      \o Layout(n.entries[j].v, indent, base + indent)
             ELSE Layout(n.items[j], indent, base + indent))
         \o (IF j < count THEN <<44>> ELSE <<>>)
         \o <<10>>
         \o LayoutChildren(n, count, j + 1, indent, base)

Layout(n, indent, base) ==
    IF n.type = "Array"
    THEN <<91, 10>> \o LayoutChildren(n, Len(n.items), 1, indent, base)
             \o Spaces(base) \o <<93>>
    ELSE IF n.type = "Object"
    THEN <<123, 10>> \o LayoutChildren(n, Len(n.entries), 1, indent, base)
             \o Spaces(base) \o <<125>>
    ELSE IF n.type = "Str" THEN <<34>> \o n.s \o <<34>>
    ELSE IF n.type = "Number" THEN <<49>>
    ELSE IF n.type = "Boolean" THEN T_false
    ELSE T_null

\* C24: print writes an Array or Object as the opening bracket and a line
\* feed, each child on its own line indented by current_indent + indent
\* spaces with a comma after every child but the last, and the closing
\* bracket indented by current_indent spaces; an Object child is written as
\* "key": value and a nested collection with current_indent raised by indent.
C24_PrintLayout ==
    pc = "printed" => dest = prev \o Layout(node, out.indent, out.current_indent)

\* C24 witness: [{"a": 1}, "a"] printed with indent 2 from current indent 1
C24_Witness ==
    /\ pc = "printed"
    /\ prev = <<>>
    /\ out.indent = 2
    /\ out.current_indent = 1
    /\ node = ArrayNode(<<ObjectNode(<<Entry(KeyA, IntegerNode(1))>>), StrNode(<<Ch.a>>)>>)
    /\ dest = <<91, 10>> \o <<32, 32, 32, 123, 10>>
                  \o <<32, 32, 32, 32, 32, 34, 97, 34, 58, 32, 49, 10>>
                  \o <<32, 32, 32, 125, 44, 10>>
                  \o <<32, 32, 32, 34, 97, 34, 10>>
                  \o <<32, 93>>


(***************************************************************************)
(* print called on a Str, or on an Array or Object holding one, whose text *)
(* mixes plain characters with those JSON escapes.                         *)
(***************************************************************************)
PrettyStrInit ==
    /\ pc = "print"
    /\ \E s \in EscapeTexts :
          node \in { StrNode(s), ArrayNode(<<StrNode(s)>>), ObjectNode(<<Entry(s, NoneNode)>>) }
    /\ src = Source(<<>>)
    /\ dest \in InitialDests
    /\ prev = dest
    /\ out = [st |-> "none", indent |-> 0, current_indent |-> 0]

PrettyStrNext == PrettyPrint

SpecPrintStr == PrettyStrInit /\ [][PrettyStrNext]_vars

\* what print is to write for a node of PrettyStrInit: its layout with each
\* Str and key as the default stringify writes it
LayoutWithStringify(n, indent, base) ==
    IF n.type = "Str" THEN stringify(n, <<>>)
    ELSE IF n.type = "Array"
    THEN <<91, 10>> \o Spaces(base + indent) \o stringify(n.items[1], <<>>) \o <<10>>
             \o Spaces(base) \o <<93>>
    ELSE <<123, 10>> \o Spaces(base + indent) \o stringify(StrNode(n.entries[1].k), <<>>)
             \o <<58, 32>> \o T_null \o <<10>> \o Spaces(base) \o <<125>>

\* C25: for every Str and every Object key, the quoted text print writes is
\* the text the default stringify writes for that string, also when it
\* holds ", \ or control characters.
C25_PrintEscapesLikeStringify ==
    pc = "printed" =>
        dest = prev \o LayoutWithStringify(node, out.indent, out.current_indent)


(***************************************************************************)
(* strip_whitespace called on a valid JSON text and parse called on what   *)
(* it wrote.                                                               *)
(***************************************************************************)
\* parse on a Source over the bytes strip has written; bytes that are not
\* UTF-8 give no text to parse
ParseStripped ==
    /\ pc = "stripped"
    /\ out.st = "ok"
    /\ LET text == from_utf8(SubSeq(dest, Len(prev) + 1, Len(dest)))
       IN  out' = IF text = <<None>> THEN PErr("not text", Source(<<>>))
                  ELSE parse(Source(text))
    /\ pc' = "strip_parsed"
    /\ UNCHANGED <<node, src, dest, prev>>

StripParseNext == Strip \/ ParseStripped

SpecStripParse == StripInit /\ [][StripParseNext]_vars

\* C26: for every valid JSON text, parse applied to what strip_whitespace
\* writes returns a Node equal to the one parse returns for the text.
C26_StripPreservesMeaning ==
    pc = "strip_parsed" =>
        LET original == parse(Source(src.buf))
        IN  original.ok => (out.ok /\ NodeEq(out.node, original.node))


(***************************************************************************)
(* strip_whitespace called on any text, valid JSON or not.                 *)
(***************************************************************************)
StripAnyMaxLen == 4

StripAnyChars == { Ch.a, Ch.sp, Ch.quote, Ch.bslash }

StripAnyTexts == UNION { [1..k -> StripAnyChars] : k \in 0..StripAnyMaxLen }

StripAnyInit ==
    /\ pc = "strip"
    /\ node = NoNode
    /\ \E text \in StripAnyTexts : src = Source(text)
    /\ dest \in InitialDests
    /\ prev = dest
    /\ out = [st |-> "none", err |-> ""]

StripAnyNext == Strip

SpecStripAny == StripAnyInit /\ [][StripAnyNext]_vars

\* C27: strip_whitespace returns normally on every input text, with the
\* source fully consumed, also when the text ends inside a string literal
\* or right after a backslash inside one.
C27_StripReturnsOnEveryText ==
    pc = "stripped" => (out.st = "ok" /\ ~more(src))


(***************************************************************************)
(* The default serializer called on the integer Numeric variants.          *)
(***************************************************************************)
NumericMaxMagnitude == 70000

IntegerKinds ==
    { "Integer", "UInteger", "Byte", "Int8", "Int16", "Int32", "UInt16", "UInt32" }

NumericSamples ==
    { -32768, -129, -128, -1, 0, 7, 127, 128, 255, 256, 32767, 65535, 65536,
      0 - NumericMaxMagnitude, NumericMaxMagnitude }

\* the values of each variant's Rust type (i64, u64, u8, i8, i16, i32, u16, u32)
InRange(kind, n) ==
    IF kind = "Byte" THEN n \in 0..255
    ELSE IF kind = "Int8" THEN n \in -128..127
    ELSE IF kind = "Int16" THEN n \in -32768..32767
    ELSE IF kind = "UInt16" THEN n \in 0..65535
    ELSE IF kind \in {"UInteger", "UInt32"} THEN n >= 0
    ELSE TRUE

NumericInit ==
    /\ pc = "stringify"
    /\ \E kind \in IntegerKinds, n \in NumericSamples :
          /\ InRange(kind, n)
          /\ node \in { NumericNode(kind, n), ArrayNode(<<NumericNode(kind, n)>>) }
    /\ src = Source(<<>>)
    /\ dest \in InitialDests
    /\ prev = dest
    /\ out = [st |-> "none", err |-> ""]

NumericNext == Stringify

SpecNumeric == NumericInit /\ [][NumericNext]_vars

NumberOf(n) == IF n.type = "Array" THEN n.items[1] ELSE n

Bracketed(n, text) ==
    IF n.type = "Array" THEN <<Ch.lbrack>> \o text \o <<Ch.rbrack>> ELSE text

\* C28: the default stringify writes every integer Numeric variant as the
\* plain decimal text of its value, the text print writes for it.
C28_IntegerVariantsAsDecimal ==
    pc = "stringified" =>
        LET number == NumberOf(node)
            decimal == as_bytes(i64_to_string(number.n))
        IN  /\ print(number, <<>>, 0, 0) = decimal
            /\ SubSeq(dest, Len(prev) + 1, Len(dest)) = Bracketed(node, decimal)


\* a sequence starts with another
StartsWith(s, p) == Len(p) <= Len(s) /\ SubSeq(s, 1, Len(p)) = p

\* the dotted paths a TOML text names: the path of every header and of every
\* key/value line under its header
NamedPaths(text) ==
    LET ls == LinesOf(text, <<>>)
    IN  { h.path : h \in Members(HeaderLines(ls, 1)) }
        \cup { Dotted(e.path, e.key) : e \in Members(Outline(ls, 1, <<>>)) }

\* C29: a successful stringify_toml loses no key: every key of every object
\* in the tree appears in the output, on a key = value line or in a [path]
\* or [[path]] header (as its last component, or as a table the header
\* passes through), also when its value is an empty array or an empty
\* object.
C29_TomlLosesNoKey ==
    (pc = "toml_done" /\ out.st = "ok") =>
        LET named == NamedPaths(SubSeq(dest, Len(prev) + 1, Len(dest)))
        IN  \A p \in TreePaths(node, <<>>) :
               \E q \in named : q = p \/ StartsWith(q, p \o <<Ch.dot>>)


(***************************************************************************)
(* The parser run one step at a time (json_lib/parser/default.rs): a call  *)
(* stack with one frame per active call, and the cursor.  A frame holds    *)
(* the function, the point reached in it, the text collected (num_str, hex *)
(* or the rest of a literal), the cursor at the call, the cursor at the    *)
(* start of the current iteration of the function's loop and the number of *)
(* iterations begun.  A step is what one function does up to its next      *)
(* call, loop iteration or return.                                         *)
(***************************************************************************)
Frame(fn, s) ==
    [fn |-> fn, at |-> "start", acc |-> <<>>, is_float |-> FALSE,
     entry |-> s.pos, mark |-> s.pos, iters |-> 0]

\* the outcomes of a step: go on in the frame, call a function, return
Go(f, s) == [kind |-> "go", frame |-> f, callee |-> "", res |-> "", src |-> s]

Call(f, callee, s) == [kind |-> "call", frame |-> f, callee |-> callee, res |-> "", src |-> s]

Ret(f, res, s) == [kind |-> "ret", frame |-> f, callee |-> "", res |-> res, src |-> s]

Reached(f, label) == [f EXCEPT !.at = label]

\* the first iteration of the frame's loop begins
Enter(f, label, s) == [f EXCEPT !.at = label, !.mark = s.pos]

\* the next iteration of the frame's loop begins
Again(f, s) == Go([f EXCEPT !.iters = @ + 1, !.mark = s.pos], s)

\* a skip_whitespace whose loop does not move the cursor
skip_whitespace_stall(f, s) ==
    LET c == current(s)
    IN  IF c # None /\ is_whitespace(c) THEN Again(f, s) ELSE Ret(f, "ok", s)

\* one iteration of the loop of skip_whitespace
skip_whitespace_step(f, s) ==
    LET c == current(s)
    IN  IF c # None /\ is_whitespace(c) THEN Again(f, next(s)) ELSE Ret(f, "ok", s)

\* parse: skip_whitespace, then the match on the current character
parse_step(f, s, res) ==
    LET c == current(s)
    IN  IF f.at = "start" THEN Call(Reached(f, "dispatch"), "skip_whitespace", s)
        ELSE IF f.at = "dispatch" THEN
            IF c = Ch.lbrace THEN Call(Reached(f, "return"), "parse_object", s)
            ELSE IF c = Ch.lbrack THEN Call(Reached(f, "return"), "parse_array", s)
            ELSE IF c = Ch.quote THEN Call(Reached(f, "return"), "parse_string", s)
            ELSE IF c = Ch.t THEN Call(Reached(f, "return"), "parse_true", s)
            ELSE IF c = Ch.f THEN Call(Reached(f, "return"), "parse_false", s)
            ELSE IF c = Ch.n THEN Call(Reached(f, "return"), "parse_null", s)
            ELSE IF c # None /\ (is_digit(c) \/ c = Ch.minus)
                 THEN Call(Reached(f, "return"), "parse_number", s)
            ELSE Ret(f, "err", s)
        ELSE Ret(f, res, s)

parse_object_step(f, s, res) ==
    LET c == current(s)
    IN  IF f.at = "start" THEN Call(Reached(f, "first"), "skip_whitespace", next(s))
        ELSE IF f.at = "first" THEN
            IF c = Ch.rbrace THEN Ret(f, "ok", next(s)) ELSE Go(Enter(f, "loop", s), s)
        ELSE IF f.at = "loop" THEN Call(Reached(f, "key"), "skip_whitespace", s)
        ELSE IF f.at = "key" THEN Call(Reached(f, "after_key"), "parse_string", s)
        ELSE IF f.at = "after_key" THEN
            IF res = "err" THEN Ret(f, "err", s)
            ELSE Call(Reached(f, "colon"), "skip_whitespace", s)
        ELSE IF f.at = "colon" THEN
            IF c = Ch.colon THEN Call(Reached(f, "value"), "skip_whitespace", next(s))
            ELSE Ret(f, "err", s)
        ELSE IF f.at = "value" THEN Call(Reached(f, "after_value"), "parse", s)
        ELSE IF f.at = "after_value" THEN
            IF res = "err" THEN Ret(f, "err", s)
            ELSE Call(Reached(f, "separator"), "skip_whitespace", s)
        ELSE IF c = Ch.comma THEN Again(Reached(f, "loop"), next(s))
        ELSE IF c = Ch.rbrace THEN Ret(f, "ok", next(s))
        ELSE Ret(f, "err", s)

parse_array_step(f, s, res) ==
    LET c == current(s)
    IN  IF f.at = "start" THEN Call(Reached(f, "first"), "skip_whitespace", next(s))
        ELSE IF f.at = "first" THEN
            IF c = Ch.rbrack THEN Ret(f, "ok", next(s)) ELSE Go(Enter(f, "loop", s), s)
        ELSE IF f.at = "loop" THEN Call(Reached(f, "after_value"), "parse", s)
        ELSE IF f.at = "after_value" THEN
            IF res = "err" THEN Ret(f, "err", s)
            ELSE Call(Reached(f, "separator"), "skip_whitespace", s)
        ELSE IF c = Ch.comma THEN Again(Reached(f, "loop"), next(s))
        ELSE IF c = Ch.rbrack THEN Ret(f, "ok", next(s))
        ELSE Ret(f, "err", s)

\* parse_string: the while loop, and inside its \u arm the for loop that
\* runs four times
parse_string_step(f, s, res) ==
    LET c == current(s)
        s1 == next(s)
        e == current(s1)
    IN  IF f.at = "start" THEN Go(Enter(f, "loop", s1), s1)
        ELSE IF f.at = "loop" THEN
            IF c = None THEN Ret(f, "err", s)
            ELSE IF c = Ch.quote THEN Ret(f, "ok", s1)
            ELSE IF c = Ch.bslash THEN
                IF e = Ch.u THEN Go([f EXCEPT !.at = "hex", !.acc = <<>>], next(s1))
                ELSE IF e # None /\ simple_escape(e) # None THEN Again(f, next(s1))
                ELSE Ret(f, "err", s1)
            ELSE Again(f, s1)
        ELSE IF Len(f.acc) = 4 THEN
            IF from_u32(from_str_radix16(f.acc)) = None THEN Ret(f, "err", s)
            ELSE Again([f EXCEPT !.at = "loop", !.acc = <<>>], s)
        ELSE IF c # None /\ is_ascii_hexdigit(c)
             THEN Go([f EXCEPT !.acc = Append(@, c)], s1)
        ELSE Ret(f, "err", s)

parse_number_step(f, s, res) ==
    LET c == current(s)
        s1 == next(s)
        sign == current(s1)
    IN  IF f.at = "start" THEN
            IF c = Ch.minus THEN Go(Enter([f EXCEPT !.acc = <<Ch.minus>>], "loop", s1), s1)
            ELSE Go(Enter(f, "loop", s), s)
        ELSE IF c # None /\ is_digit(c) THEN Again([f EXCEPT !.acc = Append(@, c)], s1)
        ELSE IF c = Ch.dot THEN
            IF f.is_float THEN Ret(f, "err", s)
            ELSE Again([f EXCEPT !.acc = Append(@, c), !.is_float = TRUE], s1)
        ELSE IF c \in {Ch.e, Ch.E} THEN
            IF sign \in {Ch.plus, Ch.minus}
            THEN Again([f EXCEPT !.acc = @ \o <<c, sign>>, !.is_float = TRUE], next(s1))
            ELSE Again([f EXCEPT !.acc = Append(@, c), !.is_float = TRUE], s1)
        ELSE IF f.is_float THEN Ret(f, IF parse_f64(f.acc).ok THEN "ok" ELSE "err", s)
        ELSE Ret(f, IF parse_i64(f.acc).ok THEN "ok" ELSE "err", s)

\* parse_true, parse_false and parse_null: the for loop over the rest of
\* the literal
parse_literal_step(f, s, res) ==
    LET rest == IF f.fn = "parse_true" THEN <<Ch.r, Ch.u, Ch.e>>
                ELSE IF f.fn = "parse_false" THEN <<Ch.a, Ch.l, Ch.s, Ch.e>>
                ELSE <<Ch.u, Ch.l, Ch.l>>
    IN  IF f.at = "start" THEN Go([Enter(f, "loop", next(s)) EXCEPT !.acc = rest], next(s))
        ELSE IF f.acc = <<>> THEN Ret(f, "ok", s)
        ELSE IF current(s) # f.acc[1] THEN Ret(f, "err", s)
        ELSE Again([f EXCEPT !.acc = Tail(@)], next(s))

ParseStepsMaxTokens == 2

TopFrame(stack) == stack[Len(stack)]

\* the call stack after a step
Stepped(stack, m) ==
    IF m.kind = "ret" THEN SubSeq(stack, 1, Len(stack) - 1)
    ELSE IF m.kind = "call"
         THEN Append([stack EXCEPT ![Len(stack)] = m.frame], Frame(m.callee, m.src))
    ELSE [stack EXCEPT ![Len(stack)] = m.frame]

\* a step of the function on top of the stack takes effect; the return of
\* the outermost parse ends the run
Run(m) ==
    LET stack == Stepped(out.stack, m)
    IN  /\ src' = m.src
        /\ out' = [st |-> IF stack = <<>> THEN m.res ELSE "running",
                   stack |-> stack,
                   steps |-> out.steps + 1,
                   res |-> m.res]
        /\ pc' = IF stack = <<>> THEN "parsed" ELSE "stepping"
        /\ UNCHANGED <<node, dest, prev>>

Running(fns) == pc = "stepping" /\ TopFrame(out.stack).fn \in fns

StepParse ==
    /\ Running({"parse"})
    /\ Run(parse_step(TopFrame(out.stack), src, out.res))

StepSkipWhitespace ==
    /\ Running({"skip_whitespace"})
    /\ Run(skip_whitespace_step(TopFrame(out.stack), src))

StepParseObject ==
    /\ Running({"parse_object"})
    /\ Run(parse_object_step(TopFrame(out.stack), src, out.res))

StepParseArray ==
    /\ Running({"parse_array"})
    /\ Run(parse_array_step(TopFrame(out.stack), src, out.res))

StepParseString ==
    /\ Running({"parse_string"})
    /\ Run(parse_string_step(TopFrame(out.stack), src, out.res))

StepParseNumber ==
    /\ Running({"parse_number"})
    /\ Run(parse_number_step(TopFrame(out.stack), src, out.res))

StepParseLiteral ==
    /\ Running({"parse_true", "parse_false", "parse_null"})
    /\ Run(parse_literal_step(TopFrame(out.stack), src, out.res))

ParseStepsTokens ==
    ParseTokens \cup { T_false, T_null, <<Ch.lf>>, <<Ch.d1, Ch.e, Ch.plus, Ch.d2>>,
                       <<Ch.quote, Ch.bslash, Ch.n, Ch.quote>>,
                       <<Ch.quote, Ch.bslash, Ch.u, Ch.d0, Ch.d0, Ch.d2, Ch.a, Ch.quote>>,
                       <<Ch.quote, Ch.bslash, Ch.u, Ch.d1>> }

RECURSIVE ParseStepsRuns(_)
ParseStepsRuns(k) ==
    IF k = 0 THEN { <<>> }
    ELSE { <<>> } \cup { x \o r : x \in ParseStepsTokens, r \in ParseStepsRuns(k - 1) }

ParseStepsInit ==
    /\ pc = "stepping"
    /\ node = NoNode
    /\ \E core \in ParseStepsRuns(ParseStepsMaxTokens), suffix \in ParseSuffixes :
       \E text \in Framed(core) \cup Framed(<<Ch.lbrack>> \o core \o <<Ch.rbrack>>) :
          src = Source(text \o suffix)
    /\ dest = <<>>
    /\ prev = <<>>
    /\ out = [st |-> "running", stack |-> <<Frame("parse", src)>>, steps |-> 0, res |-> ""]

ParseStepsNext ==
    \/ StepParse
    \/ StepSkipWhitespace
    \/ StepParseObject
    \/ StepParseArray
    \/ StepParseString
    \/ StepParseNumber
    \/ StepParseLiteral

SpecParseSteps == ParseStepsInit /\ [][ParseStepsNext]_vars

\* the program runs on until parse returns
SpecParseStepsFair == SpecParseSteps /\ WF_vars(ParseStepsNext)


\* a bound on the steps of parse that is linear in the length of the text:
\* an opening bracket costs the most, seven steps on the way in (parse,
\* skip_whitespace, the match, parse_array up to its loop) and two on the
\* way out
StepBound(text) == 10 * (Len(text) + 1)

\* a step that begins the next iteration of the loop of the running function
LoopBack ==
    /\ out.stack # <<>> /\ out'.stack # <<>>
    /\ Len(out'.stack) = Len(out.stack)
    /\ TopFrame(out'.stack).iters > TopFrame(out.stack).iters

\* a step in which parse_object or parse_array calls parse
RecursiveCall ==
    /\ Len(out'.stack) = Len(out.stack) + 1
    /\ Len(out.stack) >= 2
    /\ TopFrame(out'.stack).fn = "parse"

====
